---- MODULE Spec2Model ----
(***************************************************************************)
(* go-semver-audit: the API diff engine (internal/analyzer/diff.go), the   *)
(* Result predicates and ParseUpgrade (internal/analyzer/types.go), the    *)
(* Analyzer (internal/analyzer/analyzer.go), the report formatters         *)
(* FormatJSON and FormatText (internal/report) and run with its exit code  *)
(* (cmd/go-semver-audit/main.go).                                          *)
(*                                                                         *)
(* Go maps are modelled as functions whose DOMAIN is the key set; a Go     *)
(* `range` over a map visits the keys in an unspecified order, which is    *)
(* modelled as a choice among all permutations of the key set.             *)
(***************************************************************************)
EXTENDS Naturals, Sequences, FiniteSets

VARIABLES oldAPI, newAPI, usage, diff,
          ifaceName, oldIface, newIface, change, swapped,
          result, breaking, warnings, strict, exitCode,
          upgradeSpec, parsed,
          cfg, pc, moduleUpgrade, analyzer, unusedOutcome, output,
          stdout, stderr, exitCalls, runErr, calls,
          pkgs, upgrade, apc, loads, analyzed, unusedRet,
          jsonOut, textOut, affected, loadErr

vars == <<oldAPI, newAPI, usage, diff,
          ifaceName, oldIface, newIface, change, swapped,
          result, breaking, warnings, strict, exitCode,
          upgradeSpec, parsed,
          cfg, pc, moduleUpgrade, analyzer, unusedOutcome, output,
          stdout, stderr, exitCalls, runErr, calls,
          pkgs, upgrade, apc, loads, analyzed, unusedRet,
          jsonOut, textOut, affected, loadErr>>

diffVars   == <<oldAPI, newAPI, diff>>
ifaceVars  == <<ifaceName, oldIface, newIface, change, swapped>>
resultVars == <<result, breaking, warnings, strict, exitCode>>
parseVars  == <<upgradeSpec, parsed>>
runVars    == <<cfg, pc, moduleUpgrade, analyzer, unusedOutcome, output,
                stdout, stderr, exitCalls, runErr, calls>>
analyzeVars == <<pkgs, upgrade, apc, loads, analyzed, unusedRet, loadErr>>
reportVars == <<jsonOut, textOut, affected>>
pipelineVars == <<parseVars, runVars, analyzeVars, reportVars>>

----------------------------------------------------------------------------
(* Bounds and value universes                                              *)

MaxLocs == 1
MaxMethods == 2
MaxEntries == 1
MaxSpecLen == 5
MaxPkgs == 1

Names == {"A", "B"}
Sigs == {"func() error", "func(context.Context) error"}
Kinds == {"struct{}", "int"}
MethodStrs == {"Handle() error", "Close() error"}
IfaceMethodStrs == {"Handle() error", "Close() error", "Reset()"}
Locs == {[File |-> "main.go", Line |-> 10]}
Deps == {"github.com/unused/dep"}

\* A Go nil pointer, and a variable that no call has assigned yet.
Nil == [nil |-> TRUE]
Unset == [unset |-> TRUE]

Range(s) == {s[i] : i \in 1..Len(s)}

SeqsUpTo(S, n) == UNION {[1..k -> S] : k \in 0..n}

\* Every order in which a Go `range` can visit the key set S.
SeqPerms(S) == {s \in [1..Cardinality(S) -> S] : Range(s) = S}

\* A Go map with keys among K and values among V.
Maps(K, V) == UNION {[D -> V] : D \in SUBSET K}

----------------------------------------------------------------------------
(* types.go: the data model                                                *)

Function(name, sig) ==
    [Name |-> name, Signature |-> sig, PkgPath |-> "lib", IsMethod |-> FALSE]

Type(name, kind) == [Name |-> name, Kind |-> kind, PkgPath |-> "lib"]

Interface(name, methods) == [Name |-> name, Methods |-> methods, PkgPath |-> "lib"]

RemovedSymbol(name, kind, locations) ==
    [Name |-> name, Type |-> kind, UsedIn |-> locations]

AddedSymbol(name, kind) == [Name |-> name, Type |-> kind]

ChangedSignature(name, oldSig, newSig, locations) ==
    [Name |-> name, OldSignature |-> oldSig, NewSignature |-> newSig,
     UsedIn |-> locations]

InterfaceChange(name, added, removed, locations) ==
    [Name |-> name, AddedMethods |-> added, RemovedMethods |-> removed,
     ChangedMethods |-> <<>>, UsedIn |-> locations]

Diff(removed, added, changed, ifaceChanges) ==
    [Removed |-> removed, Added |-> added, Changed |-> changed,
     InterfaceChanges |-> ifaceChanges]

\* fmt.Errorf(msg + ": %w", cause); cause is Nil, an error or the detail.
Error(msg, cause) == [msg |-> msg, cause |-> cause]

\* Only the first usage location of a symbol.
Locations_FirstOnly(usg, name) ==
    IF name \in DOMAIN usg.Symbols /\ usg.Symbols[name] # <<>>
    THEN <<Head(usg.Symbols[name])>>
    ELSE <<>>

\* usage.Symbols[name]: a missing key reads as the empty (nil) slice.
Locations(usg, name) ==
    IF name \in DOMAIN usg.Symbols THEN usg.Symbols[name] ELSE <<>>

----------------------------------------------------------------------------
(* diff.go: diffInterfaces                                                 *)

\* Mutant: the usage check is dropped.
diffInterfaces_IgnoresUsage(name, oldI, newI, usg, oldOrder, newOrder) ==
    LET oldMethods == Range(oldI.Methods)
        newMethods == Range(newI.Methods)
        IsRemoved(method) == method \notin newMethods
        IsAdded(method) == method \notin oldMethods
        removed == SelectSeq(oldOrder, IsRemoved)
        added == SelectSeq(newOrder, IsAdded)
    IN  IF Len(added) > 0 \/ Len(removed) > 0
        THEN InterfaceChange(name, added, removed, Locations(usg, name))
        ELSE Nil

\* Mutant: only added methods count as a change.
diffInterfaces_AddedOnly(name, oldI, newI, usg, oldOrder, newOrder) ==
    LET oldMethods == Range(oldI.Methods)
        newMethods == Range(newI.Methods)
        IsRemoved(method) == method \notin newMethods
        IsAdded(method) == method \notin oldMethods
        removed == SelectSeq(oldOrder, IsRemoved)
        added == SelectSeq(newOrder, IsAdded)
    IN  IF Len(added) > 0 /\ Len(Locations(usg, name)) > 0
        THEN InterfaceChange(name, added, removed, Locations(usg, name))
        ELSE Nil

\* Mutant: a used interface is reported whether or not its methods changed.
diffInterfaces_ReportsWhenUsed(name, oldI, newI, usg, oldOrder, newOrder) ==
    LET oldMethods == Range(oldI.Methods)
        newMethods == Range(newI.Methods)
        IsRemoved(method) == method \notin newMethods
        IsAdded(method) == method \notin oldMethods
        removed == SelectSeq(oldOrder, IsRemoved)
        added == SelectSeq(newOrder, IsAdded)
    IN  IF Len(Locations(usg, name)) > 0
        THEN InterfaceChange(name, added, removed, Locations(usg, name))
        ELSE Nil

\* oldOrder and newOrder are the orders in which the two `range` loops visit
\* the keys of the oldMethods and newMethods maps.
diffInterfaces(name, oldI, newI, usg, oldOrder, newOrder) ==
    LET oldMethods == Range(oldI.Methods)
        newMethods == Range(newI.Methods)
        IsRemoved(method) == method \notin newMethods
        IsAdded(method) == method \notin oldMethods
        removed == SelectSeq(oldOrder, IsRemoved)
        added == SelectSeq(newOrder, IsAdded)
    IN  IF (Len(added) > 0 \/ Len(removed) > 0) /\ Len(Locations(usg, name)) > 0
        THEN InterfaceChange(name, added, removed, Locations(usg, name))
        ELSE Nil

\* The iteration orders one call of diffInterfaces can take.
MethodOrders(iface) == SeqPerms(Range(iface.Methods))

----------------------------------------------------------------------------
(* diff.go: diffAPIs, one operator per loop                                *)

\* Mutant: removed functions are reported whether used or not.
removedFunctions_Unfiltered(old, new, usg, order) ==
    LET Test(name) == name \notin DOMAIN new.Funcs
        sel == SelectSeq(order, Test)
    IN  [i \in 1..Len(sel) |-> RemovedSymbol(sel[i], "function", Locations(usg, sel[i]))]

\* First loop, `!exists` branch: removed functions, reported only if used.
removedFunctions(old, new, usg, order) ==
    LET Test(name) == name \notin DOMAIN new.Funcs /\ Len(Locations(usg, name)) > 0
        sel == SelectSeq(order, Test)
    IN  [i \in 1..Len(sel) |-> RemovedSymbol(sel[i], "function", Locations(usg, sel[i]))]

\* Mutant: changed signatures are reported whether used or not.
changedFunctions_Unfiltered(old, new, usg, order) ==
    LET Test(name) == /\ name \in DOMAIN new.Funcs
                      /\ old.Funcs[name].Signature # new.Funcs[name].Signature
        sel == SelectSeq(order, Test)
    IN  [i \in 1..Len(sel) |->
            ChangedSignature(sel[i], old.Funcs[sel[i]].Signature,
                             new.Funcs[sel[i]].Signature, Locations(usg, sel[i]))]

\* First loop, `else` branch: functions whose signature string changed.
changedFunctions(old, new, usg, order) ==
    LET Test(name) == /\ name \in DOMAIN new.Funcs
                      /\ old.Funcs[name].Signature # new.Funcs[name].Signature
                      /\ Len(Locations(usg, name)) > 0
        sel == SelectSeq(order, Test)
    IN  [i \in 1..Len(sel) |->
            ChangedSignature(sel[i], old.Funcs[sel[i]].Signature,
                             new.Funcs[sel[i]].Signature, Locations(usg, sel[i]))]

addedFunctions(old, new, order) ==
    LET Test(name) == name \notin DOMAIN old.Funcs
        sel == SelectSeq(order, Test)
    IN  [i \in 1..Len(sel) |-> AddedSymbol(sel[i], "function")]

\* Mutant: removed types are reported whether used or not.
removedTypes_Unfiltered(old, new, usg, order) ==
    LET Test(name) == name \notin DOMAIN new.Types
        sel == SelectSeq(order, Test)
    IN  [i \in 1..Len(sel) |-> RemovedSymbol(sel[i], "type", Locations(usg, sel[i]))]

removedTypes(old, new, usg, order) ==
    LET Test(name) == name \notin DOMAIN new.Types /\ Len(Locations(usg, name)) > 0
        sel == SelectSeq(order, Test)
    IN  [i \in 1..Len(sel) |-> RemovedSymbol(sel[i], "type", Locations(usg, sel[i]))]

\* Mutant: every type of the new surface is reported as added.
addedTypes_All(old, new, order) ==
    [i \in 1..Len(order) |-> AddedSymbol(order[i], "type")]

addedTypes(old, new, order) ==
    LET Test(name) == name \notin DOMAIN old.Types
        sel == SelectSeq(order, Test)
    IN  [i \in 1..Len(sel) |-> AddedSymbol(sel[i], "type")]

\* Interface loop, `exists` branch: the non-nil results of diffInterfaces.
changedInterfaces(old, new, usg, order, oldMethodOrder, newMethodOrder) ==
    LET Change(name) == diffInterfaces(name, old.Interfaces[name], new.Interfaces[name],
                                       usg, oldMethodOrder[name], newMethodOrder[name])
        Test(name) == name \in DOMAIN new.Interfaces /\ Change(name) # Nil
        sel == SelectSeq(order, Test)
    IN  [i \in 1..Len(sel) |-> Change(sel[i])]

\* Mutant: removed interfaces are reported whether used or not.
removedInterfaces_Unfiltered(old, new, usg, order) ==
    LET Test(name) == name \notin DOMAIN new.Interfaces
        sel == SelectSeq(order, Test)
    IN  [i \in 1..Len(sel) |-> RemovedSymbol(sel[i], "interface", Locations(usg, sel[i]))]

\* Every used interface of the old surface listed as removed.
removedInterfaces_EveryUsed(old, new, usg, order) ==
    LET Test(name) == Len(Locations(usg, name)) > 0
        sel == SelectSeq(order, Test)
    IN  [i \in 1..Len(sel) |-> RemovedSymbol(sel[i], "interface", Locations(usg, sel[i]))]

\* Interface loop, `else` branch: removed interfaces, reported only if used.
removedInterfaces(old, new, usg, order) ==
    LET Test(name) == name \notin DOMAIN new.Interfaces /\ Len(Locations(usg, name)) > 0
        sel == SelectSeq(order, Test)
    IN  [i \in 1..Len(sel) |-> RemovedSymbol(sel[i], "interface", Locations(usg, sel[i]))]

addedInterfaces(old, new, order) ==
    LET Test(name) == name \notin DOMAIN old.Interfaces
        sel == SelectSeq(order, Test)
    IN  [i \in 1..Len(sel) |-> AddedSymbol(sel[i], "interface")]

\* ord names the order each `range` of the call visits its map in.
diffAPIs(old, new, usg, ord) ==
    Diff(removedFunctions(old, new, usg, ord.oldFuncs)
             \o removedTypes(old, new, usg, ord.oldTypes)
             \o removedInterfaces(old, new, usg, ord.oldIfaces),
         addedFunctions(old, new, ord.newFuncs)
             \o addedTypes(old, new, ord.newTypes)
             \o addedInterfaces(old, new, ord.newIfaces),
         changedFunctions(old, new, usg, ord.oldFuncs),
         changedInterfaces(old, new, usg, ord.oldIfaces, ord.oldMethods, ord.newMethods))

\* Per interface of `both`, an iteration order of its method-set map.
MethodOrderChoices(ifaces, both) ==
    {f \in [both -> UNION {MethodOrders(ifaces[n]) : n \in both}] :
        \A n \in both : f[n] \in MethodOrders(ifaces[n])}

IterationOrders(old, new) ==
    LET both == DOMAIN old.Interfaces \cap DOMAIN new.Interfaces
    IN  [oldFuncs : SeqPerms(DOMAIN old.Funcs), newFuncs : SeqPerms(DOMAIN new.Funcs),
         oldTypes : SeqPerms(DOMAIN old.Types), newTypes : SeqPerms(DOMAIN new.Types),
         oldIfaces : SeqPerms(DOMAIN old.Interfaces),
         newIfaces : SeqPerms(DOMAIN new.Interfaces),
         oldMethods : MethodOrderChoices(old.Interfaces, both),
         newMethods : MethodOrderChoices(new.Interfaces, both)]

----------------------------------------------------------------------------
(* types.go: Result predicates                                             *)

\* Mutant: InterfaceChanges is left out of the disjunction.
HasBreakingChanges_IgnoresInterfaceChanges(r) ==
    IF r.Changes = Nil THEN FALSE
    ELSE Len(r.Changes.Removed) > 0 \/ Len(r.Changes.Changed) > 0

HasBreakingChanges(r) ==
    IF r.Changes = Nil THEN FALSE
    ELSE \/ Len(r.Changes.Removed) > 0
         \/ Len(r.Changes.Changed) > 0
         \/ Len(r.Changes.InterfaceChanges) > 0

HasWarnings(r) ==
    IF r.Changes = Nil THEN FALSE
    ELSE Len(r.Changes.Added) > 0 \/ Len(r.UnusedDeps) > 0

----------------------------------------------------------------------------
(* cmd/go-semver-audit: the exit code                                      *)

determineExitCode_IgnoresStrict(r, isStrict) ==
    IF HasBreakingChanges(r) THEN 1
    ELSE IF HasWarnings(r) THEN 1
    ELSE 0

determineExitCode(r, isStrict) ==
    IF HasBreakingChanges(r) THEN 1
    ELSE IF isStrict /\ HasWarnings(r) THEN 1
    ELSE 0

----------------------------------------------------------------------------
(* internal/analyzer/types.go: ParseUpgrade.  A Go string is modelled as   *)
(* the sequence of its characters; the empty string is <<>>.               *)

Chars == {"m", "v", "@", " ", "\t"}
WhiteSpace == {" ", "\t"}

\* strings.Index(s, c): the first position of c in s, 0 when absent.
Index(s, c) ==
    IF \E i \in 1..Len(s) : s[i] = c
    THEN CHOOSE i \in 1..Len(s) : s[i] = c /\ \A j \in 1..(i - 1) : s[j] # c
    ELSE 0

\* strings.Split(s, sep): the pieces of s between the occurrences of sep.
RECURSIVE Split(_, _)
Split(s, sep) ==
    LET i == Index(s, sep)
    IN IF i = 0 THEN <<s>>
       ELSE <<SubSeq(s, 1, i - 1)>> \o Split(SubSeq(s, i + 1, Len(s)), sep)

\* strings.SplitN(s, sep, 2): cut at the first occurrence of sep only.
SplitFirst(s, sep) ==
    LET i == Index(s, sep)
    IN IF i = 0 THEN <<s>>
       ELSE <<SubSeq(s, 1, i - 1), SubSeq(s, i + 1, Len(s))>>

RECURSIVE TrimLeft(_)
TrimLeft(s) ==
    IF s # <<>> /\ Head(s) \in WhiteSpace THEN TrimLeft(Tail(s)) ELSE s

RECURSIVE TrimRight(_)
TrimRight(s) ==
    IF s # <<>> /\ s[Len(s)] \in WhiteSpace
    THEN TrimRight(SubSeq(s, 1, Len(s) - 1))
    ELSE s

\* strings.TrimSpace(s)
TrimSpace(s) == TrimRight(TrimLeft(s))

Upgrade(module, oldVersion, newVersion) ==
    [Module |-> module, OldVersion |-> oldVersion, NewVersion |-> newVersion]

ParseError(s) == [Spec |-> s]

ParseUpgrade_SplitFirst(s) ==
    LET parts == SplitFirst(s, "@")
    IN IF Len(parts) # 2 THEN [upgrade |-> Nil, err |-> ParseError(s)]
       ELSE LET module == TrimSpace(parts[1])
                version == TrimSpace(parts[2])
            IN IF module = <<>> \/ version = <<>>
               THEN [upgrade |-> Nil, err |-> ParseError(s)]
               ELSE [upgrade |-> Upgrade(module, <<>>, version), err |-> Nil]

ParseUpgrade(s) ==
    LET parts == Split(s, "@")
    IN IF Len(parts) # 2 THEN [upgrade |-> Nil, err |-> ParseError(s)]
       ELSE LET module == TrimSpace(parts[1])
                version == TrimSpace(parts[2])
            IN IF module = <<>> \/ version = <<>>
               THEN [upgrade |-> Nil, err |-> ParseError(s)]
               ELSE [upgrade |-> Upgrade(module, <<>>, version), err |-> Nil]

----------------------------------------------------------------------------
(* internal/analyzer/analyzer.go: the loaded project.  A package carries   *)
(* its module (nil for the standard library), its Imports map (import path *)
(* to imported package) and the identifier uses of its TypesInfo.          *)

AppModule == [Path |-> "app", Version |-> "v1.0.0"]
LibModule == [Path |-> "lib", Version |-> "v1.0.0"]

ImportablePackages ==
    {[PkgPath |-> "lib", Module |-> LibModule],
     [PkgPath |-> "lib/sub", Module |-> LibModule],
     [PkgPath |-> "fmt", Module |-> Nil]}

ImportsMaps ==
    {[path \in {q.PkgPath : q \in S} |->
         CHOOSE q \in ImportablePackages : q.PkgPath = path] :
     S \in SUBSET ImportablePackages}

\* An entry of TypesInfo.Uses: the identifier's position and its object.
Use(name, exported, obj, pkgPath, line) ==
    [Name |-> name, Exported |-> exported, Obj |-> obj, PkgPath |-> pkgPath,
     Loc |-> [File |-> "main.go", Line |-> line]]

SampleUses ==
    {Use("Parse", TRUE, "func", "lib", 10), Use("Do", TRUE, "func", "lib", 20)}

\* TypesInfo is nil, or holds a Uses map.
TypesInfos == {Nil} \cup {[Uses |-> u] : u \in SUBSET SampleUses}

ProjectPackages ==
    [PkgPath : {"app"}, Module : {AppModule}, Imports : ImportsMaps,
     TypesInfo : TypesInfos]

\* for _, imp := range pkg.Imports: the imported packages in the order `order`
\* of the import paths.
ImportsIn(pkg, order) == [i \in 1..Len(order) |-> pkg.Imports[order[i]]]

\* The first occurrences of the elements of s, in order.
RECURSIVE Unique(_)
Unique(s) ==
    IF s = <<>> THEN <<>>
    ELSE LET init == Unique(SubSeq(s, 1, Len(s) - 1))
             last == s[Len(s)]
         IN IF last \in Range(init) THEN init ELSE Append(init, last)

getDependencyModules(pkg, order) ==
    LET withModule(imp) == imp.Module # Nil
        imps == SelectSeq(ImportsIn(pkg, order), withModule)
    IN Unique([i \in 1..Len(imps) |-> imps[i].Module])

\* Variant: a module that is not found has the empty version.
getCurrentVersion_EmptyWhenMissing(pkgList, module, orders) ==
    LET found ==
            \E i \in 1..Len(pkgList) :
                \/ pkgList[i].Module # Nil /\ pkgList[i].Module.Path = module
                \/ \E path \in DOMAIN pkgList[i].Imports :
                      /\ pkgList[i].Imports[path].Module # Nil
                      /\ pkgList[i].Imports[path].Module.Path = module
    IN [version |-> IF found THEN "v1.0.0" ELSE "", err |-> Nil]

\* getCurrentVersion looks at the packages in order; in a package, at its
\* own module first and then at the modules of its imports.
RECURSIVE getCurrentVersion(_, _, _)
getCurrentVersion(pkgList, module, orders) ==
    IF pkgList = <<>>
    THEN [version |-> "",
          err |-> Error("module not found in project dependencies",
                        [module |-> module])]
    ELSE LET pkg == Head(pkgList)
             deps == getDependencyModules(pkg, Head(orders))
             matching(dep) == dep.Path = module
         IN IF pkg.Module # Nil /\ pkg.Module.Path = module
            THEN [version |-> pkg.Module.Version, err |-> Nil]
            ELSE IF SelectSeq(deps, matching) # <<>>
            THEN [version |-> Head(SelectSeq(deps, matching)).Version, err |-> Nil]
            ELSE getCurrentVersion(Tail(pkgList), module, Tail(orders))

\* Every import of every package, packages in order, the imports of a
\* package in the order the range over its Imports map visits them.
RECURSIVE allImports(_, _)
allImports(pkgList, orders) ==
    IF pkgList = <<>> THEN <<>>
    ELSE ImportsIn(Head(pkgList), Head(orders))
            \o allImports(Tail(pkgList), Tail(orders))

getDirectDependencies(pkgList, orders) ==
    LET hasModulePath(imp) == imp.Module # Nil /\ imp.Module.Path # ""
        imps == SelectSeq(allImports(pkgList, orders), hasModulePath)
    IN Unique([i \in 1..Len(imps) |-> imps[i].Module.Path])

extractModulePath(importPath) == importPath

\* The body of FindUnusedDependencies after the project is loaded.
unusedDependencies(pkgList, orders) ==
    LET dependencies == getDirectDependencies(pkgList, orders)
        imps == allImports(pkgList, orders)
        imported == {extractModulePath(imps[i].PkgPath) : i \in 1..Len(imps)} \ {""}
        notImported(dep) == dep \notin imported
    IN SelectSeq(dependencies, notImported)

\* The orders in which the Imports maps of the packages can be visited.
ImportOrders(pkgList) ==
    {o \in [1..Len(pkgList) ->
                UNION {SeqPerms(DOMAIN pkgList[i].Imports) : i \in 1..Len(pkgList)}] :
        \A i \in 1..Len(pkgList) : o[i] \in SeqPerms(DOMAIN pkgList[i].Imports)}

----------------------------------------------------------------------------
(* analyzer.go: loadModuleAPI.  packages.Load returns an error, or a list  *)
(* of packages; a package that could not be loaded or type-checked has no  *)
(* Types (its errors stay in the package), a loaded one has a scope.       *)

FuncObj(name, exported, sig) ==
    [Obj |-> "func", Name |-> name, Exported |-> exported, Sig |-> sig,
     Named |-> FALSE, IsInterface |-> FALSE, Underlying |-> "",
     IfaceMethods |-> <<>>, Methods |-> <<>>]

\* A type name: named or not, with an interface or another underlying type,
\* and the methods bound to it.
TypeObj(name, exported, named, isInterface, underlying, ifaceMethods, methods) ==
    [Obj |-> "type", Name |-> name, Exported |-> exported, Sig |-> "",
     Named |-> named, IsInterface |-> isInterface, Underlying |-> underlying,
     IfaceMethods |-> ifaceMethods, Methods |-> methods]

Method(name, exported, sig) == [Name |-> name, Exported |-> exported, Sig |-> sig]

ScopeV1 ==
    {FuncObj("Parse", TRUE, "func(p string) bool"),
     FuncObj("helper", FALSE, "func()"),
     TypeObj("Handler", TRUE, TRUE, TRUE, "interface", <<"Handle()">>, <<>>),
     TypeObj("Thing", TRUE, TRUE, FALSE, "int", <<>>,
             <<Method("Do", TRUE, "func()"), Method("reset", FALSE, "func()")>>)}

ScopeV2 ==
    {FuncObj("Parse", TRUE, "func(p string, n int) bool"),
     FuncObj("New", TRUE, "func()"),
     TypeObj("Handler", TRUE, TRUE, TRUE, "interface",
             <<"Close()", "Handle()">>, <<>>),
     TypeObj("Alias", TRUE, FALSE, FALSE, "int", <<>>, <<>>),
     TypeObj("Thing", TRUE, TRUE, FALSE, "int", <<>>, <<>>)}

LoadedPackage(scope) == [PkgPath |-> "lib", Types |-> [Scope |-> scope]]

\* A package of the pattern that could not be loaded: no Types.
FailedPackage == [PkgPath |-> "lib", Types |-> Nil]

\* What packagesLoad can return for a module@version pattern.
SurfaceLoads ==
    {[pkgs |-> <<>>, err |-> Error("load failure", Nil)],
     [pkgs |-> <<>>, err |-> Nil],
     [pkgs |-> <<FailedPackage>>, err |-> Nil],
     [pkgs |-> <<LoadedPackage(ScopeV1)>>, err |-> Nil],
     [pkgs |-> <<LoadedPackage(ScopeV2)>>, err |-> Nil],
     [pkgs |-> <<LoadedPackage(ScopeV1), FailedPackage>>, err |-> Nil]}

\* m with the entries of n added, an entry of n replacing one of m.
Override(m, n) ==
    [k \in DOMAIN m \cup DOMAIN n |-> IF k \in DOMAIN n THEN n[k] ELSE m[k]]

Exported(scope, kind) == {o \in scope : o.Exported /\ o.Obj = kind}

ObjNamed(objs, name) == CHOOSE o \in objs : o.Name = name

\* The exported methods bound to the types of `regular`.
boundMethods(regular) ==
    UNION {{[Type |-> o.Name, M |-> o.Methods[i]] :
               i \in {j \in 1..Len(o.Methods) : o.Methods[j].Exported}} :
           o \in regular}

\* key := fmt.Sprintf("%s.%s", obj.Name(), method.Name())
methodKey(m) == m.Type \o "." \o m.M.Name

\* The entries one package adds to api.Funcs, api.Types and api.Interfaces;
\* a package without Types is skipped.
packageAPI(pkg) ==
    IF pkg.Types = Nil
    THEN [Funcs |-> <<>>, Types |-> <<>>, Interfaces |-> <<>>]
    ELSE LET scope == pkg.Types.Scope
             funcs == Exported(scope, "func")
             named == {o \in Exported(scope, "type") : o.Named}
             ifaces == {o \in named : o.IsInterface}
             regular == {o \in named : ~o.IsInterface}
             methods == boundMethods(regular)
             funcNames == {o.Name : o \in funcs}
         IN [Funcs |->
                [k \in funcNames \cup {methodKey(m) : m \in methods} |->
                    IF k \in funcNames
                    THEN [Name |-> k, Signature |-> ObjNamed(funcs, k).Sig,
                          PkgPath |-> pkg.PkgPath, IsMethod |-> FALSE]
                    ELSE [Name |-> k,
                          Signature |->
                              (CHOOSE m \in methods : methodKey(m) = k).M.Sig,
                          PkgPath |-> pkg.PkgPath, IsMethod |-> TRUE]],
             Types |->
                [k \in {o.Name : o \in regular} |->
                    [Name |-> k, Kind |-> ObjNamed(regular, k).Underlying,
                     PkgPath |-> pkg.PkgPath]],
             Interfaces |->
                [k \in {o.Name : o \in ifaces} |->
                    [Name |-> k, Methods |-> ObjNamed(ifaces, k).IfaceMethods,
                     PkgPath |-> pkg.PkgPath]]]

\* for _, pkg := range pkgs: the maps filled package after package.
RECURSIVE extractAPI(_)
extractAPI(pkgList) ==
    IF pkgList = <<>>
    THEN [Funcs |-> <<>>, Types |-> <<>>, Interfaces |-> <<>>]
    ELSE LET init == extractAPI(SubSeq(pkgList, 1, Len(pkgList) - 1))
             last == packageAPI(pkgList[Len(pkgList)])
         IN [Funcs |-> Override(init.Funcs, last.Funcs),
             Types |-> Override(init.Types, last.Types),
             Interfaces |-> Override(init.Interfaces, last.Interfaces)]

\* modulePattern := fmt.Sprintf("%s@%s", module, version)
modulePattern(module, version) == module \o "@" \o version

\* loadModuleAPI, given what packagesLoad returned for the pattern.
loadModuleAPI(load, module, version) ==
    IF load.err # Nil
    THEN [api |-> Nil,
          err |-> Error("failed to load module",
                        [pattern |-> modulePattern(module, version), err |-> load.err])]
    ELSE IF Len(load.pkgs) = 0
    THEN [api |-> Nil,
          err |-> Error("no packages found for module",
                        [pattern |-> modulePattern(module, version), err |-> Nil])]
    ELSE [api |-> extractAPI(load.pkgs), err |-> Nil]

----------------------------------------------------------------------------
(* analyzer.go: findUsage                                                  *)

\* The import paths of pkg whose module is the target module.
targetImports(pkg, module) ==
    {path \in DOMAIN pkg.Imports :
        /\ pkg.Imports[path].Module # Nil
        /\ pkg.Imports[path].Module.Path = module}

\* The package path findUsage reads off the object of a use.
objectPkgPath(use) ==
    IF use.Obj \in {"func", "type", "var"} THEN use.PkgPath ELSE ""

\* The uses of one package, in the order the range over TypesInfo.Uses
\* visits them, that findUsage records given the imports seen so far.
recordedUses(useOrder, imports) ==
    LET recorded(use) == use.Exported /\ objectPkgPath(use) \in imports
    IN SelectSeq(useOrder, recorded)

\* symbols with the location of every use of `uses` appended to its name.
appendLocations(symbols, uses) ==
    LET named(name) ==
            LET isName(use) == use.Name = name
                hits == SelectSeq(uses, isName)
            IN [i \in 1..Len(hits) |-> hits[i].Loc]
    IN [name \in DOMAIN symbols \cup {uses[i].Name : i \in 1..Len(uses)} |->
           (IF name \in DOMAIN symbols THEN symbols[name] ELSE <<>>) \o named(name)]

RECURSIVE findUsageFrom(_, _, _, _)
findUsageFrom(pkgList, module, useOrders, usg) ==
    IF pkgList = <<>> THEN usg
    ELSE LET pkg == Head(pkgList)
             paths == DOMAIN usg.Imports \cup targetImports(pkg, module)
             imports == [path \in paths |-> TRUE]
             symbols ==
                 IF pkg.TypesInfo = Nil THEN usg.Symbols
                 ELSE appendLocations(usg.Symbols,
                                      recordedUses(Head(useOrders), paths))
         IN findUsageFrom(Tail(pkgList), module, Tail(useOrders),
                          [Symbols |-> symbols, Imports |-> imports])

findUsage(pkgList, module, useOrders) ==
    findUsageFrom(pkgList, module, useOrders, [Symbols |-> <<>>, Imports |-> <<>>])

UsesOf(pkg) == IF pkg.TypesInfo = Nil THEN {} ELSE pkg.TypesInfo.Uses

\* The orders in which the Uses maps of the packages can be visited.
UseOrders(pkgList) ==
    {o \in [1..Len(pkgList) ->
                UNION {SeqPerms(UsesOf(pkgList[i])) : i \in 1..Len(pkgList)}] :
        \A i \in 1..Len(pkgList) : o[i] \in SeqPerms(UsesOf(pkgList[i]))}

ParseIdle ==
    /\ upgradeSpec = <<>>
    /\ parsed = Unset

RunIdle ==
    /\ cfg = Unset
    /\ pc = "idle"
    /\ moduleUpgrade = Unset
    /\ analyzer = Unset
    /\ unusedOutcome = Unset
    /\ output = Unset
    /\ stdout = <<>>
    /\ stderr = <<>>
    /\ exitCalls = <<>>
    /\ runErr = Unset
    /\ calls = <<>>

AnalyzeIdle ==
    /\ pkgs = <<>>
    /\ upgrade = Unset
    /\ apc = "idle"
    /\ loads = <<>>
    /\ analyzed = Unset
    /\ unusedRet = Unset
    /\ loadErr = Unset

ReportIdle ==
    /\ jsonOut = Unset
    /\ textOut = Unset
    /\ affected = Unset

PipelineIdle == ParseIdle /\ RunIdle /\ AnalyzeIdle /\ ReportIdle

----------------------------------------------------------------------------
(* Inputs                                                                  *)

FuncMaps == {[n \in DOMAIN m |-> Function(n, m[n])] : m \in Maps(Names, Sigs)}

TypeMaps == {[n \in DOMAIN m |-> Type(n, m[n])] : m \in Maps(Names, Kinds)}

\* Method lists as the surface extractor emits them: no method twice.
SurfaceMethodLists == UNION {SeqPerms(S) : S \in SUBSET MethodStrs}

InterfaceMaps ==
    {[n \in DOMAIN m |-> Interface(n, m[n])] : m \in Maps(Names, SurfaceMethodLists)}

DeclCount(api) ==
    Cardinality(DOMAIN api.Funcs) + Cardinality(DOMAIN api.Types)
        + Cardinality(DOMAIN api.Interfaces)

\* Surfaces of at most two declarations; one name may be declared in several
\* of the three maps (loadModuleAPI merges the scopes of all packages).
Surfaces ==
    {api \in [Funcs : FuncMaps, Types : TypeMaps, Interfaces : InterfaceMaps] :
        DeclCount(api) <= Cardinality(Names)}

ImportMaps == Maps({"lib"}, {TRUE})

Usages == [Symbols : Maps(Names, SeqsUpTo(Locs, MaxLocs)), Imports : ImportMaps]

EmptyAPI == [Funcs |-> <<>>, Types |-> <<>>, Interfaces |-> <<>>]
EmptyUsage == [Symbols |-> <<>>, Imports |-> <<>>]

----------------------------------------------------------------------------
(* Specification of the diff engine: diffAPIs on every bounded input       *)

InitDiff ==
    /\ oldAPI \in Surfaces
    /\ newAPI \in Surfaces
    /\ usage \in Usages
    /\ diff = Unset
    /\ ifaceName = "A"
    /\ oldIface = Interface("A", <<>>)
    /\ newIface = Interface("A", <<>>)
    /\ change = Unset
    /\ swapped = Unset
    /\ result = Unset
    /\ breaking = Unset
    /\ warnings = Unset
    /\ strict = FALSE
    /\ exitCode = Unset
    /\ PipelineIdle


\* A diffAPIs that consumes the usage index entry of each name it looks up.
DiffAPIs_ConsumesUsage ==
    /\ \E ord \in IterationOrders(oldAPI, newAPI) :
          diff' = diffAPIs(oldAPI, newAPI, usage, ord)
    /\ usage' = [usage EXCEPT !.Symbols =
                    [n \in DOMAIN usage.Symbols \ DOMAIN oldAPI.Funcs |->
                        usage.Symbols[n]]]
    /\ UNCHANGED <<oldAPI, newAPI, ifaceVars, resultVars, pipelineVars>>

\* diff := diffAPIs(oldAPI, newAPI, usage); the call may be repeated.
DiffAPIs ==
    /\ \E ord \in IterationOrders(oldAPI, newAPI) :
          diff' = diffAPIs(oldAPI, newAPI, usage, ord)
    /\ UNCHANGED <<oldAPI, newAPI, usage, ifaceVars, resultVars, pipelineVars>>

Next == DiffAPIs

Spec == InitDiff /\ [][Next]_vars

----------------------------------------------------------------------------
(* Specification of diffInterfaces called on two descriptors of one name   *)

InterfaceDescriptors(name) ==
    {Interface(name, m) : m \in SeqsUpTo(IfaceMethodStrs, MaxMethods)}

InitIface ==
    /\ ifaceName \in Names
    /\ oldIface \in InterfaceDescriptors(ifaceName)
    /\ newIface \in InterfaceDescriptors(ifaceName)
    /\ usage \in Usages
    /\ change = Unset
    /\ swapped = Unset
    /\ oldAPI = EmptyAPI
    /\ newAPI = EmptyAPI
    /\ diff = Unset
    /\ result = Unset
    /\ breaking = Unset
    /\ warnings = Unset
    /\ strict = FALSE
    /\ exitCode = Unset
    /\ PipelineIdle

\* change := diffInterfaces(ifaceName, oldIface, newIface, usage)
DiffInterfaces ==
    /\ \E oldOrder \in MethodOrders(oldIface), newOrder \in MethodOrders(newIface) :
          change' = diffInterfaces(ifaceName, oldIface, newIface, usage,
                                   oldOrder, newOrder)
    /\ UNCHANGED <<ifaceName, oldIface, newIface, swapped, usage, diffVars, resultVars, pipelineVars>>

\* swapped := diffInterfaces(ifaceName, newIface, oldIface, usage)
DiffInterfacesSwapped ==
    /\ \E oldOrder \in MethodOrders(newIface), newOrder \in MethodOrders(oldIface) :
          swapped' = diffInterfaces(ifaceName, newIface, oldIface, usage,
                                    oldOrder, newOrder)
    /\ UNCHANGED <<ifaceName, oldIface, newIface, change, usage, diffVars, resultVars, pipelineVars>>

NextIface == DiffInterfaces \/ DiffInterfacesSwapped

SpecIface == InitIface /\ [][NextIface]_vars

----------------------------------------------------------------------------
(* Specification of the Result predicates                                  *)

Diffs ==
    [Removed : SeqsUpTo({RemovedSymbol("A", "function", <<>>)}, MaxEntries),
     Added : SeqsUpTo({AddedSymbol("B", "function")}, MaxEntries),
     Changed : SeqsUpTo({ChangedSignature("A", "old", "new", <<>>)}, MaxEntries),
     InterfaceChanges :
         SeqsUpTo({InterfaceChange("A", <<>>, <<"Method">>, <<>>)}, MaxEntries)]

Results ==
    [Module : {"example.com/lib"}, OldVersion : {"v1.0.0"}, NewVersion : {"v2.0.0"},
     Changes : {Nil} \cup Diffs, UnusedDeps : SeqsUpTo(Deps, MaxEntries)]

InitResult ==
    /\ result \in Results
    /\ strict \in BOOLEAN
    /\ breaking = Unset
    /\ warnings = Unset
    /\ exitCode = Unset
    /\ PipelineIdle
    /\ oldAPI = EmptyAPI
    /\ newAPI = EmptyAPI
    /\ usage = EmptyUsage
    /\ diff = Unset
    /\ ifaceName = "A"
    /\ oldIface = Interface("A", <<>>)
    /\ newIface = Interface("A", <<>>)
    /\ change = Unset
    /\ swapped = Unset

Returned(value) == [ret |-> value]

\* breaking := result.HasBreakingChanges()
CallHasBreakingChanges ==
    /\ breaking' = Returned(HasBreakingChanges(result))
    /\ UNCHANGED <<result, warnings, strict, exitCode, usage, diffVars, ifaceVars, pipelineVars>>

\* warnings := result.HasWarnings()
CallHasWarnings ==
    /\ warnings' = Returned(HasWarnings(result))
    /\ UNCHANGED <<result, breaking, strict, exitCode, usage, diffVars, ifaceVars, pipelineVars>>

\* exitCode := determineExitCode(result, strict)
CallDetermineExitCode ==
    /\ exitCode' = Returned(determineExitCode(result, strict))
    /\ UNCHANGED <<result, breaking, warnings, strict, usage, diffVars, ifaceVars, pipelineVars>>

NextResult == CallHasBreakingChanges \/ CallHasWarnings \/ CallDetermineExitCode

SpecResult == InitResult /\ [][NextResult]_vars

----------------------------------------------------------------------------
(* Specification of ParseUpgrade on every bounded specification string     *)

DiffIdle ==
    /\ oldAPI = EmptyAPI
    /\ newAPI = EmptyAPI
    /\ usage = EmptyUsage
    /\ diff = Unset

IfaceIdle ==
    /\ ifaceName = "A"
    /\ oldIface = Interface("A", <<>>)
    /\ newIface = Interface("A", <<>>)
    /\ change = Unset
    /\ swapped = Unset

ResultIdle ==
    /\ result = Unset
    /\ breaking = Unset
    /\ warnings = Unset
    /\ strict = FALSE
    /\ exitCode = Unset

InitParse ==
    /\ upgradeSpec \in SeqsUpTo(Chars, MaxSpecLen)
    /\ parsed = Unset
    /\ DiffIdle
    /\ IfaceIdle
    /\ ResultIdle
    /\ ReportIdle
    /\ RunIdle
    /\ AnalyzeIdle

\* parsed := ParseUpgrade(upgradeSpec)
CallParseUpgrade ==
    /\ parsed' = ParseUpgrade(upgradeSpec)
    /\ UNCHANGED <<upgradeSpec, usage, diffVars, ifaceVars, resultVars, runVars,
                   analyzeVars, reportVars>>

NextParse == CallParseUpgrade

SpecParse == InitParse /\ [][NextParse]_vars

----------------------------------------------------------------------------
(* Specification of run (cmd/go-semver-audit): one action per step of run, *)
(* pc is the position inside run.  The analyzer is reached through the     *)
(* analyzerClient interface: Analyze returns an error or a Result with a   *)
(* diff and no unused dependencies, FindUnusedDependencies returns a list  *)
(* or an error.                                                            *)

UpgradeSpecs ==
    {<<"m", "@", "v">>, <<" ", "m", "@", "v">>, <<"m">>, <<"@", "v">>,
     <<"m", "@", "v", "@", "v">>, <<>>}

Configs ==
    [projectPath : {"."}, upgrade : UpgradeSpecs, jsonOutput : BOOLEAN,
     strict : BOOLEAN, unused : BOOLEAN, verbose : BOOLEAN]

\* What Analyze can return for the upgrade u (analyzer.go, Analyze).
AnalyzeOutcomes(u) ==
    {[result |-> Nil, err |-> Error("failed to load project", Nil)]}
    \cup {[result |-> [Module |-> u.Module, OldVersion |-> <<"v">>,
                       NewVersion |-> u.NewVersion, Changes |-> d,
                       UnusedDeps |-> <<>>],
           err |-> Nil] : d \in Diffs}

\* What FindUnusedDependencies can return (analyzer.go).
UnusedOutcomes ==
    {[unused |-> <<>>, err |-> Error("failed to load packages", Nil)]}
    \cup {[unused |-> u, err |-> Nil] : u \in SeqsUpTo(Deps, MaxEntries)}

\* report.FormatJSON(result) and report.FormatText(result, verbose): the
\* report of a result in one of the two formats; neither returns an error.
formatJSONFn(r) == [output |-> [format |-> "json", of |-> r], err |-> Nil]

formatTextFn(r, verbose) ==
    [output |-> [format |-> "text", of |-> r, verbose |-> verbose], err |-> Nil]

VerboseBanner == <<"Analyzing project at: ", "Upgrade: ">>

UnusedWarning == "Warning: failed to detect unused dependencies: "

InitRun ==
    /\ cfg \in Configs
    /\ pc = "parse"
    /\ moduleUpgrade = Unset
    /\ analyzer = Unset
    /\ unusedOutcome = Unset
    /\ output = Unset
    /\ stdout = <<>>
    /\ stderr = <<>>
    /\ exitCalls = <<>>
    /\ runErr = Unset
    /\ calls = <<>>
    /\ DiffIdle
    /\ IfaceIdle
    /\ ResultIdle
    /\ ReportIdle
    /\ ParseIdle
    /\ AnalyzeIdle

runFrame == <<usage, diffVars, ifaceVars, breaking, warnings, strict, exitCode,
              parseVars, analyzeVars, reportVars>>

\* moduleUpgrade, err := parseUpgradeFn(cfg.upgrade), and the verbose banner
RunParseUpgrade_IgnoresError ==
    /\ pc = "parse"
    /\ LET p == ParseUpgrade(cfg.upgrade)
       IN /\ calls' = Append(calls, "parseUpgrade")
          /\ moduleUpgrade' = p.upgrade
          /\ stderr' = IF cfg.verbose THEN stderr \o VerboseBanner ELSE stderr
          /\ pc' = "create"
          /\ UNCHANGED runErr
    /\ UNCHANGED <<cfg, analyzer, result, unusedOutcome, output, stdout,
                   exitCalls, runFrame>>

RunParseUpgrade ==
    /\ pc = "parse"
    /\ LET p == ParseUpgrade(cfg.upgrade)
       IN /\ calls' = Append(calls, "parseUpgrade")
          /\ IF p.err # Nil
             THEN /\ runErr' = Error("invalid upgrade specification", p.err)
                  /\ pc' = "returned"
                  /\ UNCHANGED <<moduleUpgrade, stderr>>
             ELSE /\ moduleUpgrade' = p.upgrade
                  /\ stderr' = IF cfg.verbose THEN stderr \o VerboseBanner
                                ELSE stderr
                  /\ pc' = "create"
                  /\ UNCHANGED runErr
    /\ UNCHANGED <<cfg, analyzer, result, unusedOutcome, output, stdout,
                   exitCalls, runFrame>>

\* a, err := newAnalyzerFn(cfg.projectPath)
RunNewAnalyzer ==
    /\ pc = "create"
    /\ calls' = Append(calls, "newAnalyzer")
    /\ \E err \in {Nil, Error("project path does not exist", Nil)} :
          IF err # Nil
          THEN /\ runErr' = Error("failed to initialize analyzer", err)
               /\ pc' = "returned"
               /\ UNCHANGED analyzer
          ELSE /\ analyzer' = [projectPath |-> cfg.projectPath]
               /\ pc' = "analyze"
               /\ UNCHANGED runErr
    /\ UNCHANGED <<cfg, moduleUpgrade, result, unusedOutcome, output, stdout,
                   stderr, exitCalls, runFrame>>

\* result, err := a.Analyze(moduleUpgrade)
RunAnalyze ==
    /\ pc = "analyze"
    /\ calls' = Append(calls, "Analyze")
    /\ \E out \in AnalyzeOutcomes(moduleUpgrade) :
          IF out.err # Nil
          THEN /\ runErr' = Error("analysis failed", out.err)
               /\ pc' = "returned"
               /\ UNCHANGED result
          ELSE /\ result' = out.result
               /\ pc' = IF cfg.unused THEN "unused" ELSE "format"
               /\ UNCHANGED runErr
    /\ UNCHANGED <<cfg, moduleUpgrade, analyzer, unusedOutcome, output, stdout,
                   stderr, exitCalls, runFrame>>

\* result.UnusedDeps = unused
setUnusedDeps_ResetsChanges(r, unused) ==
    [r EXCEPT !.UnusedDeps = unused, !.Changes = Diff(<<>>, <<>>, <<>>, <<>>)]

setUnusedDeps(r, unused) == [r EXCEPT !.UnusedDeps = unused]

\* unused, err := a.FindUnusedDependencies(), inside `if cfg.unused`
RunFindUnused_AbortsOnError ==
    /\ pc = "unused"
    /\ calls' = Append(calls, "FindUnusedDependencies")
    /\ \E out \in UnusedOutcomes :
          /\ unusedOutcome' = out
          /\ IF out.err # Nil
             THEN /\ runErr' = Error("failed to detect unused dependencies", out.err)
                  /\ pc' = "returned"
                  /\ UNCHANGED <<stderr, result>>
             ELSE /\ result' = setUnusedDeps(result, out.unused)
                  /\ pc' = "format"
                  /\ UNCHANGED <<stderr, runErr>>
    /\ UNCHANGED <<cfg, moduleUpgrade, analyzer, output, stdout, exitCalls,
                   runFrame>>

RunFindUnused ==
    /\ pc = "unused"
    /\ calls' = Append(calls, "FindUnusedDependencies")
    /\ \E out \in UnusedOutcomes :
          /\ unusedOutcome' = out
          /\ IF out.err # Nil /\ cfg.verbose
             THEN /\ stderr' = Append(stderr, UnusedWarning)
                  /\ UNCHANGED result
             ELSE /\ result' = setUnusedDeps(result, out.unused)
                  /\ UNCHANGED stderr
    /\ pc' = "format"
    /\ UNCHANGED <<cfg, moduleUpgrade, analyzer, output, stdout, exitCalls,
                   runErr, runFrame>>

\* The formatting step going straight to the exit code, the report unwritten.
RunFormat_SkipsWrite ==
    /\ pc = "format"
    /\ LET f == IF cfg.jsonOutput THEN formatJSONFn(result)
                ELSE formatTextFn(result, cfg.verbose)
       IN /\ calls' = Append(calls, IF cfg.jsonOutput THEN "formatJSON"
                                    ELSE "formatText")
          /\ output' = f.output
          /\ pc' = "exit"
          /\ UNCHANGED runErr
    /\ UNCHANGED <<cfg, moduleUpgrade, analyzer, result, unusedOutcome, stdout,
                   stderr, exitCalls, runFrame>>

\* output, err = formatJSONFn(result) or formatTextFn(result, cfg.verbose)
RunFormat ==
    /\ pc = "format"
    /\ LET f == IF cfg.jsonOutput THEN formatJSONFn(result)
                ELSE formatTextFn(result, cfg.verbose)
       IN /\ calls' = Append(calls, IF cfg.jsonOutput THEN "formatJSON"
                                    ELSE "formatText")
          /\ IF f.err # Nil
             THEN /\ runErr' = Error("failed to generate report", f.err)
                  /\ pc' = "returned"
                  /\ UNCHANGED output
             ELSE /\ output' = f.output
                  /\ pc' = "write"
                  /\ UNCHANGED runErr
    /\ UNCHANGED <<cfg, moduleUpgrade, analyzer, result, unusedOutcome, stdout,
                   stderr, exitCalls, runFrame>>


\* The report written to the error stream instead of standard output.
RunWrite_ToStderr ==
    /\ pc = "write"
    /\ stderr' = Append(stderr, output)
    /\ pc' = "exit"
    /\ UNCHANGED <<cfg, moduleUpgrade, analyzer, result, unusedOutcome, output,
                   stdout, exitCalls, runErr, calls, runFrame>>

\* fmt.Fprint(stdoutWriter, output)
RunWrite ==
    /\ pc = "write"
    /\ stdout' = Append(stdout, output)
    /\ pc' = "exit"
    /\ UNCHANGED <<cfg, moduleUpgrade, analyzer, result, unusedOutcome, output,
                   stderr, exitCalls, runErr, calls, runFrame>>

\* exitCode := determineExitCode(result, cfg.strict); a non-zero code goes
\* to exitFunc, which ends the process (os.Exit) or returns (a replacement),
\* and run returns nil.
RunExit ==
    /\ pc = "exit"
    /\ LET code == determineExitCode(result, cfg.strict)
       IN IF code # 0
          THEN /\ exitCalls' = Append(exitCalls, code)
               /\ \E exits \in BOOLEAN :
                     IF exits
                     THEN pc' = "exited" /\ UNCHANGED runErr
                     ELSE pc' = "returned" /\ runErr' = Nil
          ELSE /\ pc' = "returned"
               /\ runErr' = Nil
               /\ UNCHANGED exitCalls
    /\ UNCHANGED <<cfg, moduleUpgrade, analyzer, result, unusedOutcome, output,
                   stdout, stderr, calls, runFrame>>

NextRun ==
    \/ RunParseUpgrade
    \/ RunNewAnalyzer
    \/ RunAnalyze
    \/ RunFindUnused
    \/ RunFormat
    \/ RunWrite
    \/ RunExit

SpecRun == InitRun /\ [][NextRun]_vars

----------------------------------------------------------------------------
(* run with the -html flag.  The main.go under test in main_test.go has a  *)
(* config.htmlOutput field and a formatHTMLFn variable; its run is the run *)
(* above with a check of the two output flags and an HTML branch of the    *)
(* formatting step.                                                        *)

HTMLConfigs ==
    [projectPath : {"."}, upgrade : {<<"m", "@", "v">>, <<"m">>},
     jsonOutput : BOOLEAN, htmlOutput : BOOLEAN,
     strict : BOOLEAN, unused : BOOLEAN, verbose : BOOLEAN]

\* report.FormatHTML(result): the HTML report of a result.
formatHTMLFn(r) == [output |-> [format |-> "html", of |-> r], err |-> Nil]

FormatConflict == Error("cannot use -json and -html together", Nil)

InitRunHTML ==
    /\ cfg \in HTMLConfigs
    /\ pc = "check"
    /\ moduleUpgrade = Unset
    /\ analyzer = Unset
    /\ unusedOutcome = Unset
    /\ output = Unset
    /\ stdout = <<>>
    /\ stderr = <<>>
    /\ exitCalls = <<>>
    /\ runErr = Unset
    /\ calls = <<>>
    /\ DiffIdle
    /\ IfaceIdle
    /\ ResultIdle
    /\ ReportIdle
    /\ ParseIdle
    /\ AnalyzeIdle

\* if cfg.jsonOutput && cfg.htmlOutput { return error }
RunCheckOutputFlags ==
    /\ pc = "check"
    /\ IF cfg.jsonOutput /\ cfg.htmlOutput
       THEN /\ runErr' = FormatConflict
            /\ pc' = "returned"
       ELSE /\ pc' = "parse"
            /\ UNCHANGED runErr
    /\ UNCHANGED <<cfg, moduleUpgrade, analyzer, result, unusedOutcome, output,
                   stdout, stderr, exitCalls, calls, runFrame>>

\* The JSON and text branches of the formatting step.
RunFormatJSONOrText ==
    /\ ~cfg.htmlOutput
    /\ RunFormat

\* output, err = formatHTMLFn(result)
RunFormatHTML ==
    /\ pc = "format"
    /\ cfg.htmlOutput
    /\ LET f == formatHTMLFn(result)
       IN /\ calls' = Append(calls, "formatHTML")
          /\ IF f.err # Nil
             THEN /\ runErr' = Error("failed to generate report", f.err)
                  /\ pc' = "returned"
                  /\ UNCHANGED output
             ELSE /\ output' = f.output
                  /\ pc' = "write"
                  /\ UNCHANGED runErr
    /\ UNCHANGED <<cfg, moduleUpgrade, analyzer, result, unusedOutcome, stdout,
                   stderr, exitCalls, runFrame>>

NextRunHTML ==
    \/ RunCheckOutputFlags
    \/ RunParseUpgrade
    \/ RunNewAnalyzer
    \/ RunAnalyze
    \/ RunFindUnused
    \/ RunFormatJSONOrText
    \/ RunFormatHTML
    \/ RunWrite
    \/ RunExit

SpecRunHTML == InitRunHTML /\ [][NextRunHTML]_vars

----------------------------------------------------------------------------
(* Specification of the Analyzer (analyzer.go): one action per step of     *)
(* Analyze, apc is the position inside Analyze, and one action for         *)
(* FindUnusedDependencies, called before or after Analyze.  Each call of   *)
(* packagesLoad is logged in `loads` with what it returned.                *)

TargetModules == {"lib", "app", "missing"}

\* What packagesLoad and packagesPrintErrors can return for "./...".
ProjectLoads ==
    {[pkgs |-> <<>>, err |-> Error("load failure", Nil), errors |-> 0]}
    \cup [pkgs : SeqsUpTo(ProjectPackages, MaxPkgs), err : {Nil}, errors : {0, 1}]

\* A loadProject that stores the packages before it counts their errors.
loadProject_AssignsBeforeCheck(load, current) ==
    IF load.err # Nil
    THEN [pkgs |-> current, err |-> Error("failed to load packages", load.err)]
    ELSE IF load.errors > 0
    THEN [pkgs |-> load.pkgs, err |-> Error("packages contain errors", Nil)]
    ELSE [pkgs |-> load.pkgs, err |-> Nil]

\* loadProject, given what the loader returned: a.pkgs is assigned only
\* when the load succeeded and the packages hold no error.
loadProject(load, current) ==
    IF load.err # Nil
    THEN [pkgs |-> current, err |-> Error("failed to load packages", load.err)]
    ELSE IF load.errors > 0
    THEN [pkgs |-> current, err |-> Error("packages contain errors", Nil)]
    ELSE [pkgs |-> load.pkgs, err |-> Nil]

\* How a call of packagesLoad ended: with an error, without any package,
\* with a package that holds errors or has no Types, or with loaded packages.
LoadOutcome(load) ==
    IF load.err # Nil THEN "error"
    ELSE IF "errors" \in DOMAIN load /\ load.errors > 0 THEN "package errors"
    ELSE IF load.pkgs = <<>> THEN "no packages"
    ELSE IF \E i \in 1..Len(load.pkgs) :
               "Types" \in DOMAIN load.pkgs[i] /\ load.pkgs[i].Types = Nil
    THEN "package errors"
    ELSE "loaded"

Load(pattern, load) == [pattern |-> pattern, outcome |-> LoadOutcome(load)]

InitAnalyze ==
    /\ upgrade \in {Upgrade(m, "", "v2.0.0") : m \in TargetModules}
    /\ pkgs = <<>>
    /\ apc = "loadProject"
    /\ loads = <<>>
    /\ analyzed = Unset
    /\ unusedRet = Unset
    /\ loadErr = Unset
    /\ oldAPI = Unset
    /\ newAPI = Unset
    /\ usage = Unset
    /\ diff = Unset
    /\ IfaceIdle
    /\ ResultIdle
    /\ ReportIdle
    /\ ParseIdle
    /\ RunIdle

analyzeFrame == <<ifaceVars, resultVars, parseVars, runVars, reportVars, loadErr>>

\* if err := a.loadProject(); err != nil { return nil, ... }; Analyze is
\* the first call on its Analyzer.
AnalyzeLoadProject ==
    /\ apc = "loadProject"
    /\ unusedRet = Unset
    /\ \E load \in ProjectLoads :
          LET r == loadProject(load, pkgs)
          IN /\ loads' = Append(loads, Load("./...", load))
             /\ pkgs' = r.pkgs
             /\ IF r.err # Nil
                THEN /\ analyzed' = [result |-> Nil,
                                     err |-> Error("failed to load project", r.err)]
                     /\ apc' = "returned"
                ELSE /\ apc' = "getCurrentVersion"
                     /\ UNCHANGED analyzed
    /\ UNCHANGED <<upgrade, unusedRet, oldAPI, newAPI, usage, diff, analyzeFrame>>

\* currentVersion, err := a.getCurrentVersion(upgrade.Module)
AnalyzeGetCurrentVersion ==
    /\ apc = "getCurrentVersion"
    /\ \E orders \in ImportOrders(pkgs) :
          LET r == getCurrentVersion(pkgs, upgrade.Module, orders)
          IN IF r.err # Nil
             THEN /\ analyzed' =
                        [result |-> Nil,
                         err |-> Error("failed to determine current version", r.err)]
                  /\ apc' = "returned"
                  /\ UNCHANGED upgrade
             ELSE /\ upgrade' = [upgrade EXCEPT !.OldVersion = r.version]
                  /\ apc' = "loadOldAPI"
                  /\ UNCHANGED analyzed
    /\ UNCHANGED <<pkgs, loads, unusedRet, oldAPI, newAPI, usage, diff, analyzeFrame>>


\* The old surface loaded at the requested instead of the pinned version.
AnalyzeLoadOldAPI_AtNewVersion ==
    /\ apc = "loadOldAPI"
    /\ \E load \in SurfaceLoads :
          LET r == loadModuleAPI(load, upgrade.Module, upgrade.NewVersion)
          IN /\ loads' = Append(loads,
                    Load(modulePattern(upgrade.Module, upgrade.NewVersion), load))
             /\ IF r.err # Nil
                THEN /\ analyzed' = [result |-> Nil,
                                     err |-> Error("failed to load old API", r.err)]
                     /\ apc' = "returned"
                     /\ UNCHANGED oldAPI
                ELSE /\ oldAPI' = r.api
                     /\ apc' = "loadNewAPI"
                     /\ UNCHANGED analyzed
    /\ UNCHANGED <<pkgs, upgrade, unusedRet, newAPI, usage, diff, analyzeFrame>>

\* oldAPI, err := a.loadModuleAPI(upgrade.Module, upgrade.OldVersion)
AnalyzeLoadOldAPI ==
    /\ apc = "loadOldAPI"
    /\ \E load \in SurfaceLoads :
          LET r == loadModuleAPI(load, upgrade.Module, upgrade.OldVersion)
          IN /\ loads' = Append(loads,
                    Load(modulePattern(upgrade.Module, upgrade.OldVersion), load))
             /\ IF r.err # Nil
                THEN /\ analyzed' = [result |-> Nil,
                                     err |-> Error("failed to load old API", r.err)]
                     /\ apc' = "returned"
                     /\ UNCHANGED oldAPI
                ELSE /\ oldAPI' = r.api
                     /\ apc' = "loadNewAPI"
                     /\ UNCHANGED analyzed
    /\ UNCHANGED <<pkgs, upgrade, unusedRet, newAPI, usage, diff, analyzeFrame>>

\* newAPI, err := a.loadModuleAPI(upgrade.Module, upgrade.NewVersion)
AnalyzeLoadNewAPI ==
    /\ apc = "loadNewAPI"
    /\ \E load \in SurfaceLoads :
          LET r == loadModuleAPI(load, upgrade.Module, upgrade.NewVersion)
          IN /\ loads' = Append(loads,
                    Load(modulePattern(upgrade.Module, upgrade.NewVersion), load))
             /\ IF r.err # Nil
                THEN /\ analyzed' = [result |-> Nil,
                                     err |-> Error("failed to load new API", r.err)]
                     /\ apc' = "returned"
                     /\ UNCHANGED newAPI
                ELSE /\ newAPI' = r.api
                     /\ apc' = "findUsage"
                     /\ UNCHANGED analyzed
    /\ UNCHANGED <<pkgs, upgrade, unusedRet, oldAPI, usage, diff, analyzeFrame>>

\* usage := a.findUsage(upgrade.Module)
AnalyzeFindUsage ==
    /\ apc = "findUsage"
    /\ \E useOrders \in UseOrders(pkgs) :
          usage' = findUsage(pkgs, upgrade.Module, useOrders)
    /\ apc' = "diffAPIs"
    /\ UNCHANGED <<pkgs, upgrade, loads, analyzed, unusedRet, oldAPI, newAPI, diff,
                   analyzeFrame>>

\* diff := diffAPIs(oldAPI, newAPI, usage); return &Result{...}, nil
AnalyzeDiffAPIs ==
    /\ apc = "diffAPIs"
    /\ \E ord \in IterationOrders(oldAPI, newAPI) :
          diff' = diffAPIs(oldAPI, newAPI, usage, ord)
    /\ analyzed' = [result |-> [Module |-> upgrade.Module,
                                OldVersion |-> upgrade.OldVersion,
                                NewVersion |-> upgrade.NewVersion,
                                Changes |-> diff', UnusedDeps |-> <<>>],
                    err |-> Nil]
    /\ apc' = "returned"
    /\ UNCHANGED <<pkgs, upgrade, loads, unusedRet, oldAPI, newAPI, usage,
                   analyzeFrame>>

\* unusedRet := a.FindUnusedDependencies(), called once, on a fresh Analyzer
\* or after Analyze returned; the project is loaded when a.pkgs is empty.
FindUnusedDependencies ==
    /\ apc \in {"loadProject", "returned"}
    /\ unusedRet = Unset
    /\ IF Len(pkgs) = 0
       THEN \E load \in ProjectLoads :
              LET r == loadProject(load, pkgs)
              IN /\ loads' = Append(loads, Load("./...", load))
                 /\ pkgs' = r.pkgs
                 /\ IF r.err # Nil
                    THEN unusedRet' = [unused |-> <<>>, err |-> r.err]
                    ELSE \E orders \in ImportOrders(r.pkgs) :
                            unusedRet' =
                                [unused |-> unusedDependencies(r.pkgs, orders),
                                 err |-> Nil]
       ELSE /\ \E orders \in ImportOrders(pkgs) :
                  unusedRet' = [unused |-> unusedDependencies(pkgs, orders),
                                err |-> Nil]
            /\ UNCHANGED <<pkgs, loads>>
    /\ UNCHANGED <<upgrade, apc, analyzed, oldAPI, newAPI, usage, diff, analyzeFrame>>

NextAnalyze ==
    \/ AnalyzeLoadProject
    \/ AnalyzeGetCurrentVersion
    \/ AnalyzeLoadOldAPI
    \/ AnalyzeLoadNewAPI
    \/ AnalyzeFindUsage
    \/ AnalyzeDiffAPIs
    \/ FindUnusedDependencies

SpecAnalyze == InitAnalyze /\ [][NextAnalyze]_vars

----------------------------------------------------------------------------
(* Specification of loadProject and FindUnusedDependencies called on an    *)
(* Analyzer that holds no packages or the packages of an earlier load      *)

\* What a.pkgs holds before the call.
PreviousPackages ==
    {<<>>}
    \cup {<<[PkgPath |-> "app", Module |-> AppModule, Imports |-> imports,
             TypesInfo |-> Nil]>> : imports \in {i \in ImportsMaps : DOMAIN i \subseteq {"lib"}}}

InitLoadProject ==
    /\ pkgs \in PreviousPackages
    /\ upgrade = Unset
    /\ apc = "loadProject"
    /\ loads = <<>>
    /\ analyzed = Unset
    /\ unusedRet = Unset
    /\ loadErr = Unset
    /\ DiffIdle
    /\ IfaceIdle
    /\ ResultIdle
    /\ ReportIdle
    /\ ParseIdle
    /\ RunIdle

\* loadErr := a.loadProject(), called once
CallLoadProject ==
    /\ loadErr = Unset
    /\ \E load \in ProjectLoads :
          LET r == loadProject(load, pkgs)
          IN /\ loads' = Append(loads, Load("./...", load))
             /\ pkgs' = r.pkgs
             /\ loadErr' = Returned(r.err)
    /\ UNCHANGED <<upgrade, apc, analyzed, unusedRet, oldAPI, newAPI, usage, diff,
                   ifaceVars, resultVars, parseVars, runVars, reportVars>>

NextLoadProject == CallLoadProject \/ FindUnusedDependencies

SpecLoadProject == InitLoadProject /\ [][NextLoadProject]_vars


----------------------------------------------------------------------------
(* internal/report: countAffectedLocations, FormatJSON, FormatText.  The   *)
(* JSON document is modelled as the object that json.MarshalIndent encodes *)
(* (keys are the struct tags; a key tagged omitempty is absent when its    *)
(* value is empty), the text report as the sequence of its blocks.         *)

\* A run-time panic of the call (nil pointer dereference).
Panic == [panic |-> "nil pointer dereference"]

\* for _, e := range entries { count += len(e.UsedIn) }
RECURSIVE usedInTotal(_)
usedInTotal(entries) ==
    IF entries = <<>> THEN 0
    ELSE Len(Head(entries).UsedIn) + usedInTotal(Tail(entries))

\* A count of the entries instead of their locations.
countAffectedLocations_CountsEntries(changes) ==
    Len(changes.Removed) + Len(changes.Changed) + Len(changes.InterfaceChanges)

countAffectedLocations(changes) ==
    usedInTotal(changes.Removed) + usedInTotal(changes.Changed)
        + usedInTotal(changes.InterfaceChanges)

\* The removed items in the reverse of the Diff's order.
removedItems_Reversed(changes) ==
    [i \in 1..Len(changes.Removed) |->
        LET removed == changes.Removed[Len(changes.Removed) + 1 - i]
        IN  [Name |-> removed.Name, Type |-> removed.Type,
             UsedIn |-> [j \in 1..Len(removed.UsedIn) |->
                            [File |-> removed.UsedIn[j].File,
                             Line |-> removed.UsedIn[j].Line]]]]

\* for _, r := range result.Changes.Removed { item := RemovedItem{...};
\*     for _, loc := range r.UsedIn { item.UsedIn = append(item.UsedIn, ...) } }
removedItems(changes) ==
    [i \in 1..Len(changes.Removed) |->
        LET removed == changes.Removed[i]
        IN  [Name |-> removed.Name, Type |-> removed.Type,
             UsedIn |-> [j \in 1..Len(removed.UsedIn) |->
                            [File |-> removed.UsedIn[j].File,
                             Line |-> removed.UsedIn[j].Line]]]]

\* The JSONReport that FormatJSON fills in; r.Changes is not nil.  Each
\* loop appends one item per entry, and one Location per entry of UsedIn.
JSONReport(r) ==
    LET changes == r.Changes
        locations(usedIn) ==
            [i \in 1..Len(usedIn) |->
                [File |-> usedIn[i].File, Line |-> usedIn[i].Line]]
    IN  [Module |-> r.Module,
         OldVersion |-> r.OldVersion,
         NewVersion |-> r.NewVersion,
         Breaking |-> HasBreakingChanges(r),
         BreakingCount |-> Len(changes.Removed) + Len(changes.Changed)
                               + Len(changes.InterfaceChanges),
         AffectedLocations |-> countAffectedLocations(changes),
         Removed |-> removedItems(changes),
         Changed |->
             [i \in 1..Len(changes.Changed) |->
                 [Name |-> changes.Changed[i].Name,
                  OldSignature |-> changes.Changed[i].OldSignature,
                  NewSignature |-> changes.Changed[i].NewSignature,
                  UsedIn |-> locations(changes.Changed[i].UsedIn)]],
         InterfaceChanges |->
             [i \in 1..Len(changes.InterfaceChanges) |->
                 [Name |-> changes.InterfaceChanges[i].Name,
                  AddedMethods |-> changes.InterfaceChanges[i].AddedMethods,
                  RemovedMethods |-> changes.InterfaceChanges[i].RemovedMethods,
                  UsedIn |-> locations(changes.InterfaceChanges[i].UsedIn)]],
         Added |->
             [i \in 1..Len(changes.Added) |->
                 [Name |-> changes.Added[i].Name,
                  Type |-> changes.Added[i].Type]],
         UnusedDeps |-> r.UnusedDeps]

\* encoding/json: a key tagged omitempty is left out when its slice is empty.
omitEmpty(object, optional) ==
    [k \in {key \in DOMAIN object :
               ~(key \in optional /\ object[key] = <<>>)} |-> object[k]]

\* json.MarshalIndent(report, "", "  "): the encoded JSON object, its keys
\* taken from the struct tags of JSONReport, the items and Location.
MarshalIndent(report) ==
    LET locations(usedIn) ==
            [i \in 1..Len(usedIn) |->
                [file |-> usedIn[i].File, line |-> usedIn[i].Line]]
    IN  omitEmpty(
            [module |-> report.Module,
             old_version |-> report.OldVersion,
             new_version |-> report.NewVersion,
             breaking |-> report.Breaking,
             breaking_count |-> report.BreakingCount,
             affected_locations |-> report.AffectedLocations,
             removed |->
                 [i \in 1..Len(report.Removed) |->
                     omitEmpty([name |-> report.Removed[i].Name,
                                type |-> report.Removed[i].Type,
                                used_in |-> locations(report.Removed[i].UsedIn)],
                               {"used_in"})],
             changed |->
                 [i \in 1..Len(report.Changed) |->
                     omitEmpty([name |-> report.Changed[i].Name,
                                old_signature |-> report.Changed[i].OldSignature,
                                new_signature |-> report.Changed[i].NewSignature,
                                used_in |-> locations(report.Changed[i].UsedIn)],
                               {"used_in"})],
             interface_changes |->
                 [i \in 1..Len(report.InterfaceChanges) |->
                     omitEmpty([name |-> report.InterfaceChanges[i].Name,
                                added_methods |->
                                    report.InterfaceChanges[i].AddedMethods,
                                removed_methods |->
                                    report.InterfaceChanges[i].RemovedMethods,
                                used_in |->
                                    locations(report.InterfaceChanges[i].UsedIn)],
                               {"added_methods", "removed_methods", "used_in"})],
             added |->
                 [i \in 1..Len(report.Added) |->
                     [name |-> report.Added[i].Name,
                      type |-> report.Added[i].Type]],
             unused_dependencies |-> report.UnusedDeps],
            {"removed", "changed", "interface_changes", "added",
             "unused_dependencies"})

\* FormatJSON(result): result.Changes is dereferenced without a nil check;
\* marshalling a JSONReport cannot fail.
FormatJSON(r) ==
    IF r.Changes = Nil THEN Panic
    ELSE [output |-> MarshalIndent(JSONReport(r)), err |-> Nil]

\* formatLocations(locations, max): the first max locations, then "and N
\* more" when there are more; the parts are joined by ", ".
formatLocations(locations, max) ==
    IF Len(locations) > max
    THEN Append(SubSeq(locations, 1, max), [more |-> Len(locations) - max])
    ELSE locations

\* summarizeFixes(changes, max): one fix per entry that has locations (an
\* entry without locations is skipped), cut to the first max.
summarizeFixes(changes, max) ==
    LET fixesOf(entries, action) ==
            LET used == SelectSeq(entries, LAMBDA e : e.UsedIn # <<>>)
            IN  [i \in 1..Len(used) |->
                    [fix |-> action, name |-> used[i].Name,
                     at |-> formatLocations(used[i].UsedIn, 1)]]
        fixes == fixesOf(changes.Removed, "Remove/replace")
                     \o fixesOf(changes.Changed, "Update call to")
                     \o fixesOf(changes.InterfaceChanges, "Update implementations of")
    IN  IF Len(fixes) > max THEN SubSeq(fixes, 1, max) ELSE fixes

\* FormatText(result, verbose): result.Changes is dereferenced without a
\* nil check; the output is the sequence of blocks written, in order, and
\* the error is always nil.
FormatText(r, verbose) ==
    IF r.Changes = Nil THEN Panic
    ELSE [err |-> Nil,
          output |->
              LET changes == r.Changes
                  hasBreaking == HasBreakingChanges(r)
                  breakingCount == Len(changes.Removed) + Len(changes.Changed)
                                       + Len(changes.InterfaceChanges)
                  usageCount == countAffectedLocations(changes)
                  fixes == summarizeFixes(changes, 3)
              IN  <<[block |-> "Analyzing upgrade", module |-> r.Module,
                     old |-> r.OldVersion, new |-> r.NewVersion]>>
                  \o (IF hasBreaking
                      THEN <<[block |-> "BREAKING CHANGES DETECTED"],
                             [block |-> "Summary", breaking |-> breakingCount,
                              locations |-> usageCount]>>
                           \o (IF fixes # <<>>
                               THEN <<[block |-> "What to fix next", fixes |-> fixes]>>
                               ELSE <<>>)
                      ELSE <<[block |-> "No breaking changes detected"]>>)
                  \o (IF changes.Removed # <<>>
                      THEN <<[block |-> "Removed Symbols",
                              entries |-> [i \in 1..Len(changes.Removed) |->
                                  [name |-> changes.Removed[i].Name,
                                   type |-> changes.Removed[i].Type,
                                   usedIn |-> formatLocations(changes.Removed[i].UsedIn, 3)]]]>>
                      ELSE <<>>)
                  \o (IF changes.Changed # <<>>
                      THEN <<[block |-> "Changed Signatures",
                              entries |-> [i \in 1..Len(changes.Changed) |->
                                  [name |-> changes.Changed[i].Name,
                                   signatures |->
                                       IF verbose
                                       THEN <<changes.Changed[i].OldSignature,
                                              changes.Changed[i].NewSignature>>
                                       ELSE <<>>,
                                   usedIn |-> formatLocations(changes.Changed[i].UsedIn, 3)]]]>>
                      ELSE <<>>)
                  \o (IF changes.InterfaceChanges # <<>>
                      THEN <<[block |-> "Modified Interfaces",
                              entries |-> [i \in 1..Len(changes.InterfaceChanges) |->
                                  [name |-> changes.InterfaceChanges[i].Name,
                                   removed |-> changes.InterfaceChanges[i].RemovedMethods,
                                   added |-> changes.InterfaceChanges[i].AddedMethods,
                                   usedIn |->
                                       formatLocations(changes.InterfaceChanges[i].UsedIn, 3)]]]>>
                      ELSE <<>>)
                  \o (IF verbose /\ changes.Added # <<>>
                      THEN <<[block |-> "Added Symbols (informational)",
                              entries |-> [i \in 1..Len(changes.Added) |->
                                  [name |-> changes.Added[i].Name,
                                   type |-> changes.Added[i].Type]]]>>
                      ELSE <<>>)
                  \o (IF r.UnusedDeps # <<>>
                      THEN <<[block |-> "Unused Dependencies", entries |-> r.UnusedDeps]>>
                      ELSE <<>>)
                  \o (IF hasBreaking
                      THEN <<[block |-> "Summary in your code", breaking |-> breakingCount,
                              locations |-> usageCount]>>
                      ELSE <<>>)]

----------------------------------------------------------------------------
(* Specification of the report formatters called on a Result               *)

ReportLocs == <<[File |-> "main.go", Line |-> 10], [File |-> "util.go", Line |-> 20]>>

\* Diffs as diffAPIs builds them: every breaking entry carries locations,
\* and no entry occurs twice in its list.
ReportDiffs ==
    [Removed : UNION {SeqPerms(S) : S \in SUBSET
                 {RemovedSymbol("A", "function", <<ReportLocs[1]>>),
                  RemovedSymbol("B", "type", ReportLocs)}},
     Added : UNION {SeqPerms(S) : S \in SUBSET
                 {AddedSymbol("A", "interface"), AddedSymbol("B", "function")}},
     Changed : SeqsUpTo({ChangedSignature("A", "func() error",
                                          "func(context.Context) error",
                                          <<ReportLocs[2]>>)}, MaxEntries),
     InterfaceChanges :
         SeqsUpTo({InterfaceChange("B", <<>>, <<"Close() error">>, ReportLocs)},
                  MaxEntries)]

ReportResults ==
    [Module : {"example.com/lib"}, OldVersion : {"v1.0.0"}, NewVersion : {"v2.0.0"},
     Changes : {Nil} \cup ReportDiffs, UnusedDeps : SeqsUpTo(Deps, MaxEntries)]

InitReport ==
    /\ result \in ReportResults
    /\ jsonOut = Unset
    /\ textOut = Unset
    /\ affected = Unset
    /\ breaking = Unset
    /\ warnings = Unset
    /\ strict = FALSE
    /\ exitCode = Unset
    /\ DiffIdle
    /\ IfaceIdle
    /\ ParseIdle
    /\ RunIdle
    /\ AnalyzeIdle

reportFrame == <<usage, diffVars, ifaceVars, resultVars, parseVars, runVars,
                 analyzeVars>>

\* jsonOut := FormatJSON(result)
CallFormatJSON ==
    /\ jsonOut' = FormatJSON(result)
    /\ UNCHANGED <<textOut, affected, reportFrame>>

\* textOut := FormatText(result, verbose)
CallFormatText ==
    /\ \E verbose \in BOOLEAN :
          textOut' = [verbose |-> verbose, ret |-> FormatText(result, verbose)]
    /\ UNCHANGED <<jsonOut, affected, reportFrame>>

\* affected := countAffectedLocations(result.Changes)
CallCountAffectedLocations ==
    /\ affected' = IF result.Changes = Nil THEN Panic
                   ELSE Returned(countAffectedLocations(result.Changes))
    /\ UNCHANGED <<jsonOut, textOut, reportFrame>>

NextReport == CallFormatJSON \/ CallFormatText \/ CallCountAffectedLocations

SpecReport == InitReport /\ [][NextReport]_vars
----------------------------------------------------------------------------
(* Specification of diffAPIs on surfaces of one declaration and usage      *)
(* indexes with several locations per symbol                               *)

MaxUses == 2

UsageLocs == {[File |-> "main.go", Line |-> 10], [File |-> "util.go", Line |-> 20]}

\* The surfaces that declare at most the name "A", once.
SingleNameSurfaces ==
    {api \in Surfaces :
        /\ DeclCount(api) <= 1
        /\ DOMAIN api.Funcs \cup DOMAIN api.Types \cup DOMAIN api.Interfaces
               \subseteq {"A"}}

\* Usage indexes as findUsage appends them: the locations of a symbol in
\* the order of the scan; two references on one line give one location twice.
LongUsages ==
    [Symbols : Maps(Names, SeqsUpTo(UsageLocs, MaxUses)), Imports : ImportMaps]

InitUsage ==
    /\ oldAPI \in SingleNameSurfaces
    /\ newAPI \in SingleNameSurfaces
    /\ usage \in LongUsages
    /\ diff = Unset
    /\ IfaceIdle
    /\ ResultIdle
    /\ PipelineIdle

NextUsage == DiffAPIs

SpecUsage == InitUsage /\ [][NextUsage]_vars
----------------------------------------------------------------------------
(* Vocabulary of the properties                                            *)

IsUsed(name) == name \in DOMAIN usage.Symbols /\ usage.Symbols[name] # <<>>

Done == diff # Unset

NamesIn(entries) == {entries[i].Name : i \in 1..Len(entries)}

InRemoved(name, kind) ==
    \E i \in 1..Len(diff.Removed) :
        diff.Removed[i].Name = name /\ diff.Removed[i].Type = kind

InAdded(name, kind) ==
    \E i \in 1..Len(diff.Added) :
        diff.Added[i].Name = name /\ diff.Added[i].Type = kind

BreakingNames ==
    NamesIn(diff.Removed) \cup NamesIn(diff.Changed) \cup NamesIn(diff.InterfaceChanges)

ListedNames == BreakingNames \cup NamesIn(diff.Added)

RemovedFuncNames == DOMAIN oldAPI.Funcs \ DOMAIN newAPI.Funcs

OnlyATypeName(name) ==
    name \notin DOMAIN oldAPI.Funcs \cup DOMAIN newAPI.Funcs
                  \cup DOMAIN oldAPI.Interfaces \cup DOMAIN newAPI.Interfaces

EmptyDiff == Diff(<<>>, <<>>, <<>>, <<>>)

----------------------------------------------------------------------------
(* Properties of diffAPIs (specification Spec)                             *)

\* C1 as stated: a function of old.Funcs absent from new.Funcs is in Removed
\* with kind "function" iff its name has a usage location, and an unused such
\* name has no entry in any of the four lists.
C1_UnusedRemovedFunctionInNoList ==
    Done => \A name \in RemovedFuncNames :
        /\ InRemoved(name, "function") <=> IsUsed(name)
        /\ ~IsUsed(name) => name \notin ListedNames

\* C1 amended: a function of old.Funcs absent from new.Funcs is in Removed with
\* kind "function" iff its name has a usage location; an unused such name has
\* no entry in Removed, Changed or InterfaceChanges and no "function" entry in
\* Added (it is in Added exactly when the new surface newly declares that name
\* as a type or an interface).
C1_RemovedFunctionIffUsed ==
    Done => \A name \in RemovedFuncNames :
        /\ InRemoved(name, "function") <=> IsUsed(name)
        /\ ~IsUsed(name) =>
              /\ name \notin BreakingNames
              /\ ~InAdded(name, "function")
              /\ name \in NamesIn(diff.Added) <=>
                    \/ name \in DOMAIN newAPI.Types \ DOMAIN oldAPI.Types
                    \/ name \in DOMAIN newAPI.Interfaces \ DOMAIN oldAPI.Interfaces

C1_Witness ==
    /\ Done
    /\ \E used, unused \in RemovedFuncNames :
          /\ IsUsed(used) /\ InRemoved(used, "function")
          /\ ~IsUsed(unused) /\ unused \notin ListedNames

\* C2: a function in both surfaces is in Changed iff its two Signature strings
\* differ and its name has a usage location; the entry carries the old and the
\* new signature.
C2_ChangedIffSignatureDiffersAndUsed ==
    Done => \A name \in DOMAIN oldAPI.Funcs \cap DOMAIN newAPI.Funcs :
        LET at == {i \in 1..Len(diff.Changed) : diff.Changed[i].Name = name}
        IN  /\ at # {} <=> /\ oldAPI.Funcs[name].Signature # newAPI.Funcs[name].Signature
                           /\ IsUsed(name)
            /\ \A i \in at :
                  /\ diff.Changed[i].OldSignature = oldAPI.Funcs[name].Signature
                  /\ diff.Changed[i].NewSignature = newAPI.Funcs[name].Signature

C2_Witness ==
    /\ Done
    /\ \E changed, same \in DOMAIN oldAPI.Funcs \cap DOMAIN newAPI.Funcs :
          /\ oldAPI.Funcs[changed].Signature # newAPI.Funcs[changed].Signature
          /\ changed \in NamesIn(diff.Changed)
          /\ oldAPI.Funcs[same].Signature = newAPI.Funcs[same].Signature
          /\ IsUsed(same)
          /\ same \notin NamesIn(diff.Changed)

ExpectedAdded ==
    {AddedSymbol(n, "function") : n \in DOMAIN newAPI.Funcs \ DOMAIN oldAPI.Funcs}
        \cup {AddedSymbol(n, "type") : n \in DOMAIN newAPI.Types \ DOMAIN oldAPI.Types}
        \cup {AddedSymbol(n, "interface") :
                 n \in DOMAIN newAPI.Interfaces \ DOMAIN oldAPI.Interfaces}

\* C4: Added holds exactly the names that only the new surface declares, each
\* with the kind of its map, whatever the usage index is.
C4_AddedIsNewOnlyNames ==
    Done => /\ Range(diff.Added) = ExpectedAdded
            /\ Len(diff.Added) = Cardinality(ExpectedAdded)

C4_Witness ==
    /\ Done
    /\ \E i, j \in 1..Len(diff.Added) :
          /\ diff.Added[i].Type # diff.Added[j].Type
          /\ IsUsed(diff.Added[i].Name)
          /\ ~IsUsed(diff.Added[j].Name)

\* C5: diffing a surface against itself gives four empty lists.
C5_SelfDiffIsEmpty == (Done /\ oldAPI = newAPI) => diff = EmptyDiff

C5_Witness ==
    /\ Done
    /\ oldAPI = newAPI
    /\ \E f \in DOMAIN oldAPI.Funcs, i \in DOMAIN oldAPI.Interfaces :
          IsUsed(f) /\ IsUsed(i) /\ oldAPI.Interfaces[i].Methods # <<>>

\* C7: a second run of diffAPIs on the same inputs returns the same Diff,
\* element for element, whatever order the maps are traversed in.
C7_RepeatedRunSameDiff == [][Done => diff' = diff]_vars

C9_InterfaceRemovedOrAdded ==
    Done => /\ \A name \in DOMAIN oldAPI.Interfaces \ DOMAIN newAPI.Interfaces :
                  /\ InRemoved(name, "interface") <=> IsUsed(name)
                  /\ name \notin NamesIn(diff.InterfaceChanges)
            /\ \A name \in DOMAIN newAPI.Interfaces \ DOMAIN oldAPI.Interfaces :
                  InAdded(name, "interface")

C9_Witness ==
    /\ Done
    /\ \E gone \in DOMAIN oldAPI.Interfaces \ DOMAIN newAPI.Interfaces :
          IsUsed(gone) /\ InRemoved(gone, "interface")
    /\ \E new \in DOMAIN newAPI.Interfaces \ DOMAIN oldAPI.Interfaces :
          ~IsUsed(new) /\ InAdded(new, "interface")

----------------------------------------------------------------------------
(* Properties of diffInterfaces (specification SpecIface)                  *)

OldMethodSet == Range(oldIface.Methods)
NewMethodSet == Range(newIface.Methods)

\* C3: diffInterfaces returns a change iff the two method sets differ and the
\* interface name has a usage location; AddedMethods is then exactly new \ old
\* and RemovedMethods exactly old \ new.
C3_ChangeIffMethodSetsDifferAndUsed ==
    change # Unset =>
        /\ change # Nil <=> /\ OldMethodSet # NewMethodSet
                            /\ IsUsed(ifaceName)
        /\ change # Nil =>
              /\ Range(change.AddedMethods) = NewMethodSet \ OldMethodSet
              /\ Len(change.AddedMethods) = Cardinality(NewMethodSet \ OldMethodSet)
              /\ Range(change.RemovedMethods) = OldMethodSet \ NewMethodSet
              /\ Len(change.RemovedMethods) = Cardinality(OldMethodSet \ NewMethodSet)

C3_Witness ==
    /\ change # Unset
    /\ change # Nil
    /\ Len(oldIface.Methods) > Cardinality(OldMethodSet)
    /\ change.AddedMethods # <<>>
    /\ change.RemovedMethods # <<>>

\* C6: diffInterfaces(A, B) is nil exactly when diffInterfaces(B, A) is nil, and
\* otherwise the added methods of one are the removed methods of the other.
C6_SwapSymmetry ==
    (change # Unset /\ swapped # Unset) =>
        /\ change = Nil <=> swapped = Nil
        /\ change # Nil =>
              /\ Range(change.AddedMethods) = Range(swapped.RemovedMethods)
              /\ Range(change.RemovedMethods) = Range(swapped.AddedMethods)

C6_Witness ==
    /\ change # Unset
    /\ swapped # Unset
    /\ change # Nil
    /\ change.AddedMethods # <<>>
    /\ change.RemovedMethods = <<>>
    /\ swapped.RemovedMethods = change.AddedMethods

----------------------------------------------------------------------------
(* Properties of the Result predicates (specification SpecResult)          *)

BreakingCount(r) ==
    IF r.Changes = Nil THEN 0
    ELSE Len(r.Changes.Removed) + Len(r.Changes.Changed)
            + Len(r.Changes.InterfaceChanges)

\* C10: HasBreakingChanges() is true iff Removed, Changed or InterfaceChanges
\* is non-empty; Added entries and UnusedDeps alone are not breaking.
C10_BreakingIffBreakingListNonEmpty ==
    breaking # Unset => breaking = Returned(BreakingCount(result) > 0)

C10_Witness ==
    /\ breaking = Returned(TRUE)
    /\ result.Changes.Removed = <<>>
    /\ result.Changes.Changed = <<>>
    /\ result.Changes.InterfaceChanges # <<>>
    /\ result.Changes.Added # <<>>

AddedCount(r) == IF r.Changes = Nil THEN 0 ELSE Len(r.Changes.Added)

\* C11: for every Result, one without a diff (Changes = nil) included,
\* HasWarnings() is true iff Added is non-empty or UnusedDeps is non-empty;
\* so unused dependencies without any diff entry warn and do not break.
C11_WarningsIffAddedOrUnusedDeps ==
    /\ warnings # Unset =>
          warnings = Returned(AddedCount(result) > 0 \/ Len(result.UnusedDeps) > 0)
    /\ (/\ breaking # Unset
        /\ warnings # Unset
        /\ BreakingCount(result) + AddedCount(result) = 0
        /\ result.UnusedDeps # <<>>)
          => (breaking = Returned(FALSE) /\ warnings = Returned(TRUE))

\* C13: determineExitCode(result, strict) returns 1 iff HasBreakingChanges()
\* is true, or strict is true and HasWarnings() is true, and 0 otherwise; so
\* a result that only warns (added symbols or unused dependencies next to a
\* diff without breaking entries) gives 0 when not strict and 1 when strict.
C13_ExitCodeOneIffBreakingOrStrictWarnings ==
    exitCode # Unset =>
        /\ exitCode \in {Returned(0), Returned(1)}
        /\ exitCode = Returned(1) <=>
              (HasBreakingChanges(result) \/ (strict /\ HasWarnings(result)))
        /\ (/\ result.Changes # Nil
            /\ BreakingCount(result) = 0
            /\ (AddedCount(result) > 0 \/ result.UnusedDeps # <<>>))
              => exitCode = Returned(IF strict THEN 1 ELSE 0)

C13_Witness ==
    /\ exitCode = Returned(1)
    /\ strict
    /\ result.Changes # Nil
    /\ BreakingCount(result) = 0
    /\ AddedCount(result) = 0
    /\ result.UnusedDeps # <<>>

----------------------------------------------------------------------------
(* Properties of ParseUpgrade (specification SpecParse)                    *)

AtPositions == {i \in 1..Len(upgradeSpec) : upgradeSpec[i] = "@"}

BeforeAt == SubSeq(upgradeSpec, 1, (CHOOSE i \in AtPositions : TRUE) - 1)

AfterAt ==
    SubSeq(upgradeSpec, (CHOOSE i \in AtPositions : TRUE) + 1, Len(upgradeSpec))

NonBlank(s) == {i \in 1..Len(s) : s[i] \notin WhiteSpace}

\* s without its leading and trailing white space, for s with a non-blank.
Trimmed(s) ==
    LET first == CHOOSE i \in NonBlank(s) : \A j \in NonBlank(s) : i <= j
        last == CHOOSE i \in NonBlank(s) : \A j \in NonBlank(s) : j <= i
    IN SubSeq(s, first, last)

WellFormedSpec ==
    /\ Cardinality(AtPositions) = 1
    /\ NonBlank(BeforeAt) # {}
    /\ NonBlank(AfterAt) # {}

\* C12: ParseUpgrade(spec) succeeds iff spec holds exactly one "@" and the
\* parts before and after it are non-empty once surrounding white space is
\* trimmed; then Module and NewVersion are the trimmed parts and OldVersion
\* is empty; in every other case it returns a ParseError and no Upgrade.
C12_ParseSucceedsIffOneAtAndNonEmptyParts ==
    parsed # Unset =>
        IF WellFormedSpec
        THEN /\ parsed.err = Nil
             /\ parsed.upgrade =
                  [Module |-> Trimmed(BeforeAt), OldVersion |-> <<>>,
                   NewVersion |-> Trimmed(AfterAt)]
        ELSE /\ parsed.upgrade = Nil
             /\ parsed.err = [Spec |-> upgradeSpec]

C12_Witness ==
    /\ parsed # Unset
    /\ parsed.err = Nil
    /\ Len(upgradeSpec) = MaxSpecLen
    /\ Head(upgradeSpec) \in WhiteSpace
    /\ upgradeSpec[Len(upgradeSpec)] \in WhiteSpace
    /\ parsed.upgrade.Module = <<"m">>
    /\ parsed.upgrade.NewVersion = <<"v">>

----------------------------------------------------------------------------
(* Properties of run (specification SpecRun)                               *)

ParseFails == cfg # Unset /\ ParseUpgrade(cfg.upgrade).err # Nil

Terminated == pc \in {"returned", "exited"}

\* C14: when the upgrade specification fails to parse, run returns an
\* "invalid upgrade specification" error before any other step: no analyzer
\* is created, Analyze and FindUnusedDependencies (the only steps that load
\* the project or a surface) are not called, nothing is written and the
\* exit function is not called.
C14_ParseErrorReturnsBeforeAnyOtherStep ==
    (ParseFails /\ pc # "parse") =>
        /\ pc = "returned"
        /\ runErr # Nil
        /\ runErr.msg = "invalid upgrade specification"
        /\ calls = <<"parseUpgrade">>
        /\ moduleUpgrade = Unset
        /\ analyzer = Unset
        /\ result = Unset
        /\ unusedOutcome = Unset
        /\ output = Unset
        /\ stdout = <<>>
        /\ stderr = <<>>
        /\ exitCalls = <<>>

C14_Witness ==
    /\ ParseFails
    /\ pc = "returned"
    /\ cfg.verbose
    /\ cfg.unused
    /\ Len(cfg.upgrade) > 3

UnusedFailed == unusedOutcome # Unset /\ unusedOutcome.err # Nil

ExitCallsFor(r, isStrict) ==
    IF HasBreakingChanges(r) \/ (isStrict /\ HasWarnings(r)) THEN <<1>> ELSE <<>>

\* What holds in every state of a run after FindUnusedDependencies failed.
AuditGoesOnAfterUnusedFailure ==
    UnusedFailed =>
        /\ pc \in {"format", "write", "exit", "returned", "exited"}
        /\ runErr \in {Unset, Nil}
        /\ result.Changes # Nil
        /\ result.UnusedDeps = <<>>
        /\ pc \in {"write", "exit", "returned", "exited"} => output.of = result
        /\ pc \in {"exit", "returned", "exited"} => stdout = <<output>>
        /\ Terminated => exitCalls = ExitCallsFor(result, cfg.strict)
        /\ pc = "returned" => runErr = Nil

\* C17: with unused-dependency detection requested, a failure of
\* FindUnusedDependencies never aborts the audit: the step leaves the primary
\* result as Analyze returned it, the report of that result is formatted and
\* written to stdout, run returns no error, and exitFunc is called (or not)
\* according to the exit code of the primary result.
C17_UnusedFailureNeverAbortsAudit ==
    /\ []AuditGoesOnAfterUnusedFailure
    /\ [][(pc = "unused" /\ pc' # "unused" /\ unusedOutcome'.err # Nil)
            => result' = result]_vars

C17_Witness ==
    /\ UnusedFailed
    /\ ~cfg.verbose
    /\ pc = "returned"
    /\ runErr = Nil
    /\ stdout # <<>>
    /\ exitCalls = <<1>>

\* C18: with unused-dependency detection requested, whenever
\* FindUnusedDependencies returns an error the warning "failed to detect
\* unused dependencies" is on stderr, whatever the other flags are.
C18_UnusedFailureAlwaysLogsWarning ==
    UnusedFailed => \E i \in 1..Len(stderr) : stderr[i] = UnusedWarning

\* C20: the unused-dependency pass does not influence the Diff: once Analyze
\* has returned the Result, no step of run (FindUnusedDependencies executed
\* or skipped, whatever it returns) changes its Module, versions or Changes
\* (Removed, Added, Changed, InterfaceChanges); only UnusedDeps may change.
C20_UnusedPassLeavesDiffAlone ==
    [][result # Unset =>
          /\ result' # Unset
          /\ result' = [result EXCEPT !.UnusedDeps = result'.UnusedDeps]]_vars

C20_Witness ==
    /\ pc = "format"
    /\ unusedOutcome # Unset
    /\ result.UnusedDeps # <<>>
    /\ result.Changes.Removed # <<>>
    /\ result.Changes.Added # <<>>

----------------------------------------------------------------------------
(* Properties of the Analyzer (specification SpecAnalyze)                  *)

ModuleOfImport(i, path) ==
    /\ path \in DOMAIN pkgs[i].Imports
    /\ pkgs[i].Imports[path].Module # Nil
    /\ pkgs[i].Imports[path].Module.Path = upgrade.Module

\* The target is the module of a loaded package or of one of their imports.
TargetIsADependency ==
    \E i \in 1..Len(pkgs) :
        \/ pkgs[i].Module # Nil /\ pkgs[i].Module.Path = upgrade.Module
        \/ \E path \in DOMAIN pkgs[i].Imports : ModuleOfImport(i, path)

\* Analyze has loaded the project and nothing has reloaded it since.
ProjectLoadedByAnalyze ==
    /\ apc \notin {"loadProject", "getCurrentVersion"}
    /\ unusedRet = Unset
    /\ loads[1].outcome \in {"loaded", "no packages"}

\* C15: when the target module is neither the module of a loaded project
\* package nor the module of a package one of them imports, Analyze returns
\* a "module ... not found" error and no Result, before either surface is
\* loaded (the project load is the only load) and before usage and diff.
C15_MissingModuleFailsBeforeSurfaces ==
    (ProjectLoadedByAnalyze /\ ~TargetIsADependency) =>
        /\ apc = "returned"
        /\ analyzed.result = Nil
        /\ analyzed.err.msg = "failed to determine current version"
        /\ analyzed.err.cause.msg = "module not found in project dependencies"
        /\ analyzed.err.cause.cause.module = upgrade.Module
        /\ Len(loads) = 1
        /\ upgrade.OldVersion = ""
        /\ oldAPI = Unset
        /\ newAPI = Unset
        /\ usage = Unset
        /\ diff = Unset

C15_Witness ==
    /\ ProjectLoadedByAnalyze
    /\ ~TargetIsADependency
    /\ upgrade.Module = "lib"
    /\ Len(pkgs) = 1
    /\ DOMAIN pkgs[1].Imports = {"fmt"}
    /\ analyzed # Unset

\* The surface loads of Analyze that did not end with loaded packages only.
FailedSurfaceLoads ==
    {i \in 1..Len(loads) :
        loads[i].pattern # "./..." /\ loads[i].outcome # "loaded"}

\* C16: whenever the old-version or the new-version surface cannot be
\* loaded (the loader returns an error, no package, or a package that could
\* not be loaded), Analyze returns an error that carries the failing
\* module@version and no Result, and no diff is computed.
C16_SurfaceLoadFailureReturnsError ==
    \A i \in FailedSurfaceLoads :
        /\ apc = "returned"
        /\ analyzed.result = Nil
        /\ analyzed.err.cause.cause.pattern = loads[i].pattern
        /\ diff = Unset

\* The modules of the packages that the loaded packages import.
ImportedModules ==
    UNION {{pkgs[i].Imports[path].Module.Path :
               path \in {q \in DOMAIN pkgs[i].Imports :
                            pkgs[i].Imports[q].Module # Nil}} :
           i \in 1..Len(pkgs)}

\* The direct dependency modules: by their definition, the same modules.
DirectDependencyModules == ImportedModules

\* C19: FindUnusedDependencies returns exactly the direct dependency modules
\* to which no import of a loaded package resolves: a dependency with an
\* imported package is never returned, one without is always returned.
C19_UnusedAreTheDependenciesNotImported ==
    (unusedRet # Unset /\ unusedRet.err = Nil) =>
        Range(unusedRet.unused) = DirectDependencyModules \ ImportedModules

----------------------------------------------------------------------------
(* C21: the diff engine leaves its inputs unchanged                        *)

\* C21: every call of diffAPIs (and of diffInterfaces, which it calls on
\* the interface descriptors) leaves oldAPI, newAPI (the three maps and
\* every descriptor, Methods lists included) and usage (Symbols and
\* Imports) equal to their values before the call.
C21_DiffLeavesInputsUnchanged ==
    [][/\ oldAPI' = oldAPI
       /\ newAPI' = newAPI
       /\ usage' = usage
       /\ oldIface' = oldIface
       /\ newIface' = newIface]_vars

\* A call that filtered by usage, walked function and interface descriptors
\* and reported from both.
C21_Witness ==
    /\ diff # Unset
    /\ diff.Removed # <<>>
    /\ diff.InterfaceChanges # <<>>
    /\ DOMAIN oldAPI.Funcs # {}
    /\ DOMAIN usage.Symbols # {}

----------------------------------------------------------------------------
(* C22, C27: the report formatters                                         *)

\* The list under a key of the JSON document; an absent key is an empty list.
JSONList(object, key) == IF key \in DOMAIN object THEN object[key] ELSE <<>>

\* The used_in list of a JSON item names the same locations in the same order.
SameLocations(item, usedIn) ==
    LET listed == JSONList(item, "used_in")
    IN  /\ Len(listed) = Len(usedIn)
        /\ \A j \in 1..Len(usedIn) :
              listed[j].file = usedIn[j].File /\ listed[j].line = usedIn[j].Line

\* C22: FormatJSON renders exactly what the Diff contains: the removed,
\* changed, interface_changes and added lists of the document have the same
\* entries in the same order as Removed, Changed, InterfaceChanges and Added
\* of the Diff, unused_dependencies equals Result.UnusedDeps, breaking
\* equals HasBreakingChanges() and breaking_count equals
\* |Removed| + |Changed| + |InterfaceChanges|.
C22_JSONRendersExactlyTheDiff ==
    (jsonOut # Unset /\ result.Changes # Nil) =>
        LET doc == jsonOut.output
            changes == result.Changes
            removed == JSONList(doc, "removed")
            changed == JSONList(doc, "changed")
            ifaces == JSONList(doc, "interface_changes")
            added == JSONList(doc, "added")
        IN  /\ jsonOut.err = Nil
            /\ Len(removed) = Len(changes.Removed)
            /\ \A i \in 1..Len(removed) :
                  /\ removed[i].name = changes.Removed[i].Name
                  /\ removed[i].type = changes.Removed[i].Type
                  /\ SameLocations(removed[i], changes.Removed[i].UsedIn)
            /\ Len(changed) = Len(changes.Changed)
            /\ \A i \in 1..Len(changed) :
                  /\ changed[i].name = changes.Changed[i].Name
                  /\ changed[i].old_signature = changes.Changed[i].OldSignature
                  /\ changed[i].new_signature = changes.Changed[i].NewSignature
                  /\ SameLocations(changed[i], changes.Changed[i].UsedIn)
            /\ Len(ifaces) = Len(changes.InterfaceChanges)
            /\ \A i \in 1..Len(ifaces) :
                  /\ ifaces[i].name = changes.InterfaceChanges[i].Name
                  /\ JSONList(ifaces[i], "added_methods")
                         = changes.InterfaceChanges[i].AddedMethods
                  /\ JSONList(ifaces[i], "removed_methods")
                         = changes.InterfaceChanges[i].RemovedMethods
                  /\ SameLocations(ifaces[i], changes.InterfaceChanges[i].UsedIn)
            /\ Len(added) = Len(changes.Added)
            /\ \A i \in 1..Len(added) :
                  /\ added[i].name = changes.Added[i].Name
                  /\ added[i].type = changes.Added[i].Type
            /\ JSONList(doc, "unused_dependencies") = result.UnusedDeps
            /\ doc.breaking = HasBreakingChanges(result)
            /\ doc.breaking_count
                   = Len(changes.Removed) + Len(changes.Changed)
                         + Len(changes.InterfaceChanges)

\* A document rendered from a Diff with two removed symbols, an added one,
\* an interface change and an unused dependency.
C22_Witness ==
    /\ jsonOut # Unset
    /\ result.Changes # Nil
    /\ Len(result.Changes.Removed) = 2
    /\ result.Changes.Added # <<>>
    /\ result.Changes.InterfaceChanges # <<>>
    /\ result.UnusedDeps # <<>>
    /\ Len(JSONList(jsonOut.output, "removed")) = 2

\* The (entry, location) pairs of a list of breaking entries.
LocationSlots(entries) ==
    UNION {{<<i, j>> : j \in 1..Len(entries[i].UsedIn)} : i \in 1..Len(entries)}

\* The sum of the UsedIn lengths over Removed, Changed and InterfaceChanges.
ExpectedAffected ==
    Cardinality(LocationSlots(result.Changes.Removed))
        + Cardinality(LocationSlots(result.Changes.Changed))
        + Cardinality(LocationSlots(result.Changes.InterfaceChanges))

SummaryBlocks == {"Summary", "Summary in your code"}

\* C27: countAffectedLocations(diff) is the sum of the UsedIn lengths over
\* the Removed, Changed and InterfaceChanges entries (Added entries add
\* nothing), and that value is the affected_locations of the JSON document
\* and the location count of the text summary, which every report with a
\* breaking change carries.
C27_AffectedLocationsIsSumOfUsedIn ==
    result.Changes # Nil =>
        /\ affected # Unset => affected = Returned(ExpectedAffected)
        /\ jsonOut # Unset => jsonOut.output.affected_locations = ExpectedAffected
        /\ textOut # Unset =>
              LET blocks == textOut.ret.output
              IN  /\ \A i \in 1..Len(blocks) :
                        blocks[i].block \in SummaryBlocks =>
                            blocks[i].locations = ExpectedAffected
                  /\ HasBreakingChanges(result) =>
                        \E i \in 1..Len(blocks) : blocks[i].block \in SummaryBlocks

\* All three were computed for a Diff whose entries carry different numbers
\* of locations, next to an added symbol.
C27_Witness ==
    /\ affected # Unset
    /\ jsonOut # Unset
    /\ textOut # Unset
    /\ result.Changes # Nil
    /\ result.Changes.Added # <<>>
    /\ Len(result.Changes.Removed) = 2
    /\ ExpectedAffected > Len(result.Changes.Removed) + Len(result.Changes.Changed)
                              + Len(result.Changes.InterfaceChanges)

----------------------------------------------------------------------------
(* C23: the -json and -html flags                                          *)

\* The run came to its end without an error.
RunSucceeded == pc \in {"exit", "exited"} \/ (pc = "returned" /\ runErr = Nil)

----------------------------------------------------------------------------
(* C24: the steps of Analyze                                               *)

StepNo(step) ==
    CASE step = "loadProject" -> 1
      [] step = "getCurrentVersion" -> 2
      [] step = "loadOldAPI" -> 3
      [] step = "loadNewAPI" -> 4
      [] step = "findUsage" -> 5
      [] step = "diffAPIs" -> 6
      [] step = "returned" -> 7

\* The versions at which the loaded project pins the target module.
PinnedVersions ==
    {pkgs[i].Module.Version :
        i \in {j \in 1..Len(pkgs) : /\ pkgs[j].Module # Nil
                                    /\ pkgs[j].Module.Path = upgrade.Module}}
    \cup UNION {{pkgs[i].Imports[path].Module.Version :
                    path \in {q \in DOMAIN pkgs[i].Imports : ModuleOfImport(i, q)}} :
                i \in 1..Len(pkgs)}

\* One step of Analyze: the next step in the fixed order or the return, with
\* that step's effect and no other.
AnalyzeStepInOrder ==
    /\ upgrade'.Module = upgrade.Module
    /\ upgrade'.NewVersion = upgrade.NewVersion
    /\ oldAPI # Unset => oldAPI' = oldAPI
    /\ newAPI # Unset => newAPI' = newAPI
    /\ usage # Unset => usage' = usage
    /\ diff # Unset => diff' = diff
    /\ analyzed # Unset => analyzed' = analyzed
    /\ apc' = apc => UNCHANGED <<oldAPI, newAPI, usage, diff, analyzed>>
    /\ apc' # apc =>
          /\ StepNo(apc') = StepNo(apc) + 1 \/ apc' = "returned"
          /\ apc' # "returned" => analyzed' = Unset
          /\ (apc' = "returned" /\ apc # "diffAPIs") =>
                /\ analyzed'.result = Nil
                /\ analyzed'.err # Nil
                /\ diff' = Unset
          /\ apc = "loadProject" =>
                /\ Len(loads') = 1
                /\ loads'[1].pattern = "./..."
          /\ apc = "getCurrentVersion" =>
                /\ loads' = loads
                /\ apc' = "loadOldAPI" => upgrade'.OldVersion \in PinnedVersions
          /\ apc = "loadOldAPI" =>
                /\ upgrade.OldVersion \in PinnedVersions
                /\ Len(loads') = 2
                /\ SubSeq(loads', 1, 1) = loads
                /\ loads'[2].pattern = upgrade.Module \o "@" \o upgrade.OldVersion
                /\ apc' = "loadNewAPI" => oldAPI' # Unset
          /\ apc = "loadNewAPI" =>
                /\ Len(loads') = 3
                /\ SubSeq(loads', 1, 2) = loads
                /\ loads'[3].pattern = upgrade.Module \o "@" \o upgrade.NewVersion
                /\ apc' = "findUsage" => newAPI' # Unset
          /\ apc = "findUsage" =>
                /\ apc' = "diffAPIs"
                /\ usage = Unset
                /\ usage' # Unset
                /\ UNCHANGED <<pkgs, loads>>
          /\ apc = "diffAPIs" =>
                /\ diff = Unset
                /\ diff' # Unset
                /\ UNCHANGED <<pkgs, loads>>
                /\ analyzed'.err = Nil
                /\ analyzed'.result.Changes = diff'

\* The Result of a successful Analyze.
AnalyzeResultOnSuccess ==
    (apc = "returned" /\ analyzed.err = Nil) =>
        /\ analyzed.result.Module = upgrade.Module
        /\ analyzed.result.OldVersion = upgrade.OldVersion
        /\ analyzed.result.OldVersion \in PinnedVersions
        /\ analyzed.result.NewVersion = upgrade.NewVersion
        /\ analyzed.result.Changes = diff
        /\ Len(loads) = 3

\* C24: Analyze performs its steps in a fixed order and each at most once:
\* load the project, resolve the pinned version of the target module, load
\* the old surface at exactly that version, load the new surface at exactly
\* upgrade.NewVersion, build the usage index over the loaded project, run
\* the diff exactly once; a step that fails stops the sequence, and on
\* success the Result carries Module, OldVersion = the pinned version,
\* NewVersion = the requested version and the single Diff.
C24_AnalyzeStepsInOrderEachOnce ==
    []AnalyzeResultOnSuccess /\ [][AnalyzeStepInOrder]_vars

\* Analyze went through every step and reports a changed signature.
C24_Witness ==
    /\ apc = "returned"
    /\ analyzed.err = Nil
    /\ Len(loads) = 3
    /\ analyzed.result.Changes.Changed # <<>>

----------------------------------------------------------------------------
(* C25: the locations of a reported entry                                  *)

\* The UsedIn of every entry is the symbol's location list in the index.
UsedInIsTheIndexEntry(entries) ==
    \A i \in 1..Len(entries) :
        /\ entries[i].UsedIn # <<>>
        /\ entries[i].Name \in DOMAIN usage.Symbols
        /\ Len(entries[i].UsedIn) = Len(usage.Symbols[entries[i].Name])
        /\ \A j \in 1..Len(entries[i].UsedIn) :
              entries[i].UsedIn[j] = usage.Symbols[entries[i].Name][j]

\* C25: in every entry of Removed, Changed and InterfaceChanges produced by
\* diffAPIs the UsedIn sequence is non-empty and equals
\* usage.Symbols[entry.Name] element for element in the same order: no
\* location is dropped, duplicated or reordered.
C25_UsedInEqualsUsageSymbols ==
    diff # Unset =>
        /\ UsedInIsTheIndexEntry(diff.Removed)
        /\ UsedInIsTheIndexEntry(diff.Changed)
        /\ UsedInIsTheIndexEntry(diff.InterfaceChanges)

\* A reported entry whose symbol has two different locations.
C25_Witness ==
    /\ diff # Unset
    /\ \E entries \in {diff.Removed, diff.Changed, diff.InterfaceChanges} :
          /\ entries # <<>>
          /\ Len(entries[1].UsedIn) = 2
          /\ entries[1].UsedIn[1] # entries[1].UsedIn[2]

----------------------------------------------------------------------------
(* C26: the report and the exit code                                       *)

\* The report run formats for its result.
FormattedReport ==
    IF cfg.jsonOutput THEN formatJSONFn(result).output
    ELSE formatTextFn(result, cfg.verbose).output

OnlyWarnings ==
    /\ ~HasBreakingChanges(result)
    /\ result.Changes.Added # <<>> \/ result.UnusedDeps # <<>>

\* What holds in every state of a run whose analysis succeeded.
ReportWrittenBeforeExit ==
    /\ Len(exitCalls) <= 1
    /\ exitCalls # <<>> =>
          /\ result # Unset
          /\ stdout = <<FormattedReport>>
          /\ exitCalls[1] # 0
          /\ exitCalls[1] = determineExitCode(result, cfg.strict)
    /\ (result # Unset /\ Terminated) =>
          /\ stdout = <<FormattedReport>>
          /\ pc = "returned" => runErr = Nil
          /\ determineExitCode(result, cfg.strict) # 0 => exitCalls # <<>>
          /\ (cfg.strict /\ OnlyWarnings) => exitCalls = <<1>>

\* The exit function is invoked in a later step than the write.
ExitFollowsWrite ==
    exitCalls' # exitCalls => stdout = <<FormattedReport>> /\ stdout' = stdout

\* C26: when analysis succeeds, run writes the formatted report to stdout
\* before it invokes the exit function, and invokes the exit function only
\* with the non-zero code of determineExitCode; in strict mode a result with
\* only warnings gets its report printed and then exit code 1, and run
\* returns no error.
C26_ReportWrittenBeforeExit ==
    []ReportWrittenBeforeExit /\ [][ExitFollowsWrite]_vars

\* A strict run on a result with only warnings that printed its report,
\* called the exit function with 1 and returned.
C26_Witness ==
    /\ pc = "returned"
    /\ cfg.strict
    /\ result # Unset
    /\ OnlyWarnings
    /\ stdout # <<>>
    /\ exitCalls = <<1>>
    /\ runErr = Nil

----------------------------------------------------------------------------
(* C28: methods, from the surface and the usage scan to the Result         *)

\* The exported objects of the target module that package i references:
\* uses of a function object of a package that i imports from the target.
ReferencedFuncNames(i) ==
    IF pkgs[i].TypesInfo = Nil THEN {}
    ELSE {u.Name : u \in {v \in pkgs[i].TypesInfo.Uses :
                             /\ v.Exported
                             /\ v.Obj = "func"
                             /\ ModuleOfImport(i, v.PkgPath)}}

\* The methods T.M of the old surface that the project references (the
\* target module declares no function with the name of one of its methods).
ReferencedMethodKeys ==
    {k \in DOMAIN oldAPI.Funcs :
        /\ oldAPI.Funcs[k].IsMethod
        /\ \E t \in DOMAIN oldAPI.Types, i \in 1..Len(pkgs) :
              \E m \in ReferencedFuncNames(i) : k = t \o "." \o m}

\* C28: through Analyze, an exported method T.M of a named non-interface
\* type that exists in the old version, is removed or has another signature
\* in the new version, and is referenced by the project, is reported in
\* Removed, respectively Changed, under its key T.M.
C28_ReferencedMethodChangeIsReported ==
    (apc = "returned" /\ analyzed.err = Nil) =>
        \A k \in ReferencedMethodKeys :
            /\ k \notin DOMAIN newAPI.Funcs =>
                  \E i \in 1..Len(diff.Removed) : diff.Removed[i].Name = k
            /\ (k \in DOMAIN newAPI.Funcs
                  /\ newAPI.Funcs[k].Signature # oldAPI.Funcs[k].Signature) =>
                  \E i \in 1..Len(diff.Changed) : diff.Changed[i].Name = k

----------------------------------------------------------------------------
(* C29: loadProject and the packages of the Analyzer                       *)

\* One step: when it called the loader and the load failed (an error, or
\* packages with errors), a.pkgs keeps its value and the caller gets an
\* error; a.pkgs changes only in a step whose load succeeded.
LoadProjectIsAtomic ==
    LET ran == Len(loads') = Len(loads) + 1
        failed == loads'[Len(loads')].outcome \in {"error", "package errors"}
    IN  /\ pkgs' # pkgs => ran /\ ~failed
        /\ (ran /\ failed) =>
              /\ pkgs' = pkgs
              /\ loadErr' # loadErr => loadErr'.ret # Nil
              /\ unusedRet' # unusedRet =>
                    unusedRet'.err # Nil /\ unusedRet'.unused = <<>>
        /\ (ran /\ ~failed) =>
              /\ loadErr' # loadErr => loadErr'.ret = Nil
              /\ unusedRet' # unusedRet => unusedRet'.err = Nil
        /\ (unusedRet' # unusedRet /\ Len(pkgs) = 0) => ran
        /\ (unusedRet' # unusedRet /\ Len(pkgs) # 0) => ~ran

\* C29: loadProject is atomic with respect to Analyzer.pkgs: when the
\* loader returns an error or the loaded packages contain errors,
\* loadProject returns an error and pkgs keeps its previous value; pkgs is
\* replaced only when loading fully succeeds.  So FindUnusedDependencies on
\* an Analyzer without loaded packages returns an error when the load fails.
C29_LoadProjectIsAtomic == [][LoadProjectIsAtomic]_vars

\* A failed load on an Analyzer that held packages, which it still holds,
\* and a FindUnusedDependencies that went on with them.
C29_Witness ==
    /\ loadErr # Unset
    /\ loadErr.ret # Nil
    /\ loads[1].outcome = "package errors"
    /\ pkgs # <<>>
    /\ unusedRet # Unset

----------------------------------------------------------------------------
(* C30: the breaking lists of well-formed surfaces                         *)

\* The name-uniqueness invariant of a surface: a name is a key of at most
\* one of Funcs, Types and Interfaces.
NameUnique(api) ==
    /\ DOMAIN api.Funcs \cap DOMAIN api.Types = {}
    /\ DOMAIN api.Funcs \cap DOMAIN api.Interfaces = {}
    /\ DOMAIN api.Types \cap DOMAIN api.Interfaces = {}

\* The names of the breaking entries, list after list.
BreakingNameSeq ==
    LET all == diff.Removed \o diff.Changed \o diff.InterfaceChanges
    IN  [i \in 1..Len(all) |-> all[i].Name]

\* C30: for two surfaces that each satisfy the name-uniqueness invariant,
\* the breaking lists of diffAPIs are duplicate-free and pairwise disjoint
\* by name: no name occurs twice in Removed, Changed or InterfaceChanges,
\* and no name occurs in more than one of the three lists.
C30_BreakingListsDisjointByName ==
    (Done /\ NameUnique(oldAPI) /\ NameUnique(newAPI)) =>
        \A i, j \in 1..Len(BreakingNameSeq) :
            i # j => BreakingNameSeq[i] # BreakingNameSeq[j]

\* Well-formed surfaces with two breaking entries, one of them a name that
\* the new surface declares as another kind of symbol.
C30_Witness ==
    /\ Done
    /\ NameUnique(oldAPI)
    /\ NameUnique(newAPI)
    /\ Len(BreakingNameSeq) = 2
    /\ NamesIn(diff.Removed) \cap NamesIn(diff.Added) # {}

====
